---- MODULE Spec2Model ----
(***************************************************************************)
(* Mini Games collection: the leaderboard store (utils/scoreboard.py) and  *)
(* the round/session engines of Number Rush, Color Blast and Memory Match  *)
(* (games/*.py), driven by the Tk event loop (user commands and one-shot   *)
(* `after` callbacks).                                                     *)
(***************************************************************************)
EXTENDS Integers, Sequences, FiniteSets, TLC

\* ------------------------------------------------------------------ bounds
\* Number Rush boards are cut down to at most MaxNumbers numbers.
MaxNumbers == 2
\* Color Blast rounds are cut down to at most MaxTime seconds.
MaxTime == 2
\* Color Blast targets are cut down to at most MaxTarget correct answers.
MaxTarget == 1
\* Correct answers counted in one Color Blast round (cap of the counter).
MaxScore == 2
\* Memory Match boards are cut down to at most MaxPairs pairs.
MaxPairs == 2
\* Callbacks that may be pending on the event loop at once.
MaxPending == 2
\* add_score calls followed in one run of the store specification.
MaxAdds == 2
\* Moves (flipped pairs) followed on one Memory Match board.
MaxMoves == 3
\* Sessions start at one of the top StartSpan + 1 levels.
StartSpan == 1
\* Restart commands followed in one Memory Match session.
MaxRestarts == 1
\* Longest run of consecutive matches a scoring position starts from.
MaxStreak == 4

\* --------------------------------------------------------- program constants
TopN == 10
NumSymbols == 12
MaxLevel == 5
MaxPlayers == 4

GameTitles == {"Memory Match", "Number Rush", "Color Blast"}

Min(a, b) == IF a < b THEN a ELSE b

\* ------------------------------------------------------------- level tables
NR_LEVELS ==
  <<[numbers |-> 15, time |-> 30], [numbers |-> 20, time |-> 35],
    [numbers |-> 25, time |-> 40], [numbers |-> 30, time |-> 45],
    [numbers |-> 40, time |-> 60]>>

CB_LEVELS ==
  <<[time |-> 45, target |-> 10], [time |-> 40, target |-> 15],
    [time |-> 35, target |-> 20], [time |-> 30, target |-> 25],
    [time |-> 25, target |-> 30]>>

MM_LEVELS ==
  <<[grid |-> 4, pairs |-> 8, bonus |-> 100], [grid |-> 4, pairs |-> 8, bonus |-> 150],
    [grid |-> 5, pairs |-> 12, bonus |-> 200], [grid |-> 6, pairs |-> 18, bonus |-> 300],
    [grid |-> 6, pairs |-> 18, bonus |-> 500]>>

\* ------------------------------------------------------ leaderboard store
\* One leaderboard record (PlayerScore).
PlayerScore(game, name, score, level, ts) ==
  [name |-> name, score |-> score, level |-> level, timestamp |-> ts, game |-> game]

\* datetime.now().strftime('%Y-%m-%d %H:%M'): the wall clock is an input.
Timestamps == {"2026-01-01 10:00"}

Take(s, n) == SubSeq(s, 1, Min(Len(s), n))

\* A sort key that looks at the score alone.
KeyGEScoreOnly(a, b) == a.score >= b.score

\* Sort key (x['score'], x['level']) compared as Python tuples.
KeyGE(a, b) == a.score > b.score \/ (a.score = b.score /\ a.level >= b.level)

RECURSIVE InsertDesc(_, _)
InsertDesc(s, x) ==
  IF s = <<>> THEN <<x>>
  ELSE IF KeyGE(Head(s), x) THEN <<Head(s)>> \o InsertDesc(Tail(s), x)
       ELSE <<x>> \o s

\* list.sort(key=..., reverse=True): stable, descending.
RECURSIVE SortDesc(_)
SortDesc(s) ==
  IF s = <<>> THEN <<>>
  ELSE InsertDesc(SortDesc(SubSeq(s, 1, Len(s) - 1)), s[Len(s)])

\* The in-memory effect of add_score on the store st (a function from the
\* store's keys to entry lists); st is returned unchanged for an unknown game.
AddScore(st, game, name, score, level, ts) ==
  IF game \notin DOMAIN st THEN st
  ELSE [st EXCEPT ![game] =
          Take(SortDesc(Append(@, PlayerScore(game, name, score, level, ts))), TopN)]

\* A parsed JSON document that is not an object (the array []): no game
\* title is a member of it, and it has none of dict's methods.
JsonArray == [array |-> <<>>]

IsDict(st) == "array" \notin DOMAIN st

\* The slice s[:limit].
Slice(s, limit) ==
  IF limit >= 0 THEN Take(s, limit)
  ELSE SubSeq(s, 1, IF Len(s) + limit > 0 THEN Len(s) + limit ELSE 0)

\* get_top_scores' result: self.scores.get(game, [])[:limit].
TopScores(st, game, limit) ==
  Slice(IF game \in DOMAIN st THEN st[game] ELSE <<>>, limit)

\* get_player_rank's loop from position i on.
RECURSIVE RankFrom(_, _, _)
RankFrom(l, name, i) ==
  IF i > Len(l) THEN -1
  ELSE IF l[i].name = name THEN i
  ELSE RankFrom(l, name, i + 1)

\* get_player_rank's result.
PlayerRank(st, game, name) ==
  RankFrom(IF game \in DOMAIN st THEN st[game] ELSE <<>>, name, 1)

\* ScoreboardManager.__init__ before load_scores.
EmptyStore == [g \in GameTitles |-> <<>>]

\* ------------------------------------------------------------ program state
VARIABLES
  self,       \* the game object launched from the menu (its fields)
  scores,     \* scoreboard.scores: game title -> list of PlayerScore
  file,       \* scores.json: [kind, doc], kind "missing", "unreadable",
              \* "corrupt" (not JSON) or "json" (doc: the parsed document)
  pending,    \* Tk event loop: scheduled `after` callbacks, oldest first
  add_calls,  \* add_score calls made since the game was launched
  restarts,   \* Restart commands given since the game was launched
  last        \* the event handled last: [op, raised]

vars == <<self, scores, file, pending, add_calls, restarts, last>>

\* The state handed through a handler and the handlers it calls.
World == [self |-> self, scores |-> scores, file |-> file,
          pending |-> pending, add_calls |-> add_calls, raised |-> FALSE]

Commit(w, op) ==
  /\ self' = w.self
  /\ scores' = w.scores
  /\ file' = w.file
  /\ pending' = w.pending
  /\ add_calls' = w.add_calls
  /\ restarts' = IF op = "start_level" THEN restarts + 1 ELSE restarts
  /\ last' = [op |-> op, raised |-> w.raised]

\* ----------------------------------------------------------- Tk event loop
\* parent.after(delay, fn): a one-shot callback; id 0 stands for an id the
\* caller does not keep.
Callback(fn, delay, id, a, b) == [fn |-> fn, delay |-> delay, id |-> id, a |-> a, b |-> b]

After(w, cb) == [w EXCEPT !.pending = Append(@, cb)]

\* parent.after_cancel(id): removes the callback if it is still pending.
AfterCancel(w, id) ==
  [w EXCEPT !.pending = SelectSeq(@, LAMBDA c : c.id # id)]

IdsOf(p) == {p[i].id : i \in 1..Len(p)}

\* Tk never reuses an id: any id no pending callback and no field refers to.
FreshId(w, held) ==
  CHOOSE i \in 1..(Len(w.pending) + Cardinality(held) + 1) :
    /\ i \notin IdsOf(w.pending) \cup held
    /\ \A j \in 1..(i - 1) : j \in IdsOf(w.pending) \cup held

\* Timers fire in order of due time: callback k may fire only when every
\* callback scheduled before it has a longer delay (could be due later).
CanFire(k) ==
  /\ k \in 1..Len(pending)
  /\ \A j \in 1..(k - 1) : pending[j].delay > pending[k].delay

RemoveAt(p, k) == SubSeq(p, 1, k - 1) \o SubSeq(p, k + 1, Len(p))

\* The world in which callback k has been taken off the queue to run.
Fired(k) == [World EXCEPT !.pending = RemoveAt(pending, k)]

\* ------------------------------------------------- store calls from the games
\* What open(SCORES_FILE, 'w') and json.dump can come to: "ok", "denied"
\* (open fails, the file stays as it was) or "partial" (the file was
\* truncated by open and the dump broke off: what is left is not JSON).
WriteOutcomes == {"ok", "denied", "partial"}

\* save_scores: the whole store is dumped; any exception is swallowed.
SaveScores(f, st, outcome) ==
  IF outcome = "ok" THEN [kind |-> "json", doc |-> st]
  ELSE IF outcome = "partial" THEN [kind |-> "corrupt", doc |-> EmptyStore]
  ELSE f

\* An add_score that updates the list only once the file is written.
SbAddScoreWriteFirst(w, env, game, name, score, level) ==
  LET st == AddScore(w.scores, game, name, score, level, env.ts)
  IN [w EXCEPT !.scores = IF env.ok = "ok" THEN st ELSE @,
               !.file = IF game \in DOMAIN w.scores
                        THEN SaveScores(@, st, env.ok) ELSE @,
               !.add_calls = @ + 1]

\* scoreboard.add_score as called by a game: env.ts is the clock reading and
\* env.ok the outcome of the write.
SbAddScore(w, env, game, name, score, level) ==
  LET st == AddScore(w.scores, game, name, score, level, env.ts)
  IN [w EXCEPT !.scores = st,
               !.file = IF game \in DOMAIN w.scores
                        THEN SaveScores(@, st, env.ok) ELSE @,
               !.add_calls = @ + 1]

\* A return value that reports whether scores.json was written.
SbAddScoreReturnsWritten(w, env, game, name, score, level) ==
  game \in DOMAIN w.scores /\ env.ok = "ok"

\* add_score's return value: False from the early return for a game that is
\* not in the store, True at the end, after save_scores.
SbAddScoreReturns(w, env, game, name, score, level) == game \in DOMAIN w.scores

DefaultNames == <<"Player 1", "Player 2", "Player 3", "Player 4">>

\* ============================================================ Number Rush
\* Elapsed wall-clock time of a round in milliseconds (time.time() differences).
ElapsedChoices == {700, 3000, 5000}

NR_Numbers(level) == Min(NR_LEVELS[level].numbers, MaxNumbers)

\* NumberRushGame.__init__
NR_New ==
  [game |-> "Number Rush", phase |-> "setup", buttons |-> <<>>,
   current_number |-> 1, start_time |-> FALSE, game_active |-> FALSE,
   timer_id |-> 0, num_players |-> 1, current_player |-> 0, players |-> <<>>,
   current_level |-> 1, total_numbers |-> NR_Numbers(1), start_btn |-> "none"]

\* update_timer: refreshes the label and re-arms itself every 50 ms while the
\* round is active; a TclError from a destroyed label ends the chain.
NR_update_timer(w) ==
  IF w.self.game_active /\ w.self.start_time
  THEN IF w.self.phase = "left" THEN w
       ELSE LET id == FreshId(w, {})
            IN After([w EXCEPT !.self.timer_id = id],
                     Callback("update_timer", 50, id, 0, 0))
  ELSE w

\* A cancel block that forgets the id without calling after_cancel.
CancelTimerKeeps(w) == [w EXCEPT !.self.timer_id = 0]

\* The "Cancel any pending timer" block shared by round_complete, end_game,
\* back_to_menu and destroy.
CancelTimer(w) ==
  IF w.self.timer_id # 0
  THEN [AfterCancel(w, w.self.timer_id) EXCEPT !.self.timer_id = 0]
  ELSE w

\* A save loop that records level 1 instead of the session's level.
RECURSIVE SaveCompletedLevelOne(_, _, _, _)
SaveCompletedLevelOne(w, env, title, i) ==
  IF i > Len(w.self.players) THEN w
  ELSE LET p == w.self.players[i]
           w1 == IF p.completed
                 THEN SbAddScore(w, env, title, p.name, p.score, 1)
                 ELSE w
       IN SaveCompletedLevelOne(w1, env, title, i + 1)

\* end_game's "Save scores" loop from player i on.
RECURSIVE SaveCompleted(_, _, _, _)
SaveCompleted(w, env, title, i) ==
  IF i > Len(w.self.players) THEN w
  ELSE LET p == w.self.players[i]
           w1 == IF p.completed
                 THEN SbAddScore(w, env, title, p.name, p.score, w.self.current_level)
                 ELSE w
       IN SaveCompleted(w1, env, title, i + 1)

\* An end_game that clears the roster's completed flags for a replay.
EndGameResets(w, env) ==
  LET w1 == SaveCompleted(CancelTimer([w EXCEPT !.self.game_active = FALSE]),
                          env, w.self.game, 1)
  IN [w1 EXCEPT !.self.players = [i \in DOMAIN @ |-> [@[i] EXCEPT !.completed = FALSE]]]

\* end_game (both timer games): stop, cancel the timer, record every
\* completed player; the result dialogs change no state.
EndGame(w, env) ==
  SaveCompleted(CancelTimer([w EXCEPT !.self.game_active = FALSE]), env, w.self.game, 1)

\* A score that multiplies by the level before the fraction is dropped.
NR_ScoreLevelFirst(elapsed, level) == ((10000 * 1000) * level) \div elapsed

NR_Score(elapsed, level) == ((10000 * 1000) \div elapsed) * level

\* A round_complete that moves to the next player modulo the roster size.
NR_round_complete_wraps(w, env) ==
  LET w1 == CancelTimer([w EXCEPT !.self.game_active = FALSE])
      cp == w1.self.current_player + 1
      w2 == IF w1.self.start_time
            THEN [w1 EXCEPT !.self.players[cp] =
                    [@ EXCEPT !.time = env.elapsed, !.completed = TRUE,
                              !.score = NR_Score(env.elapsed, w1.self.current_level)]]
            ELSE w1
      w3 == [w2 EXCEPT !.self.current_player = (@ + 1) % w2.self.num_players]
  IN IF w3.self.current_player < w3.self.num_players
     THEN [w3 EXCEPT !.self.start_btn = IF @ = "none" THEN @ ELSE "shown"]
     ELSE EndGame(w3, env)

\* round_complete
NR_round_complete(w, env) ==
  LET w1 == CancelTimer([w EXCEPT !.self.game_active = FALSE])
      cp == w1.self.current_player + 1
      w2 == IF w1.self.start_time
            THEN [w1 EXCEPT !.self.players[cp] =
                    [@ EXCEPT !.time = env.elapsed, !.completed = TRUE,
                              !.score = NR_Score(env.elapsed, w1.self.current_level)]]
            ELSE w1
      w3 == [w2 EXCEPT !.self.current_player = @ + 1]
  IN IF w3.self.current_player < w3.self.num_players
     THEN [w3 EXCEPT !.self.start_btn = IF @ = "none" THEN @ ELSE "shown"]
     ELSE EndGame(w3, env)

\* create_game_grid: the old grid's widgets are destroyed (b = 0 marks a
\* pending flash whose button is gone), then one unclicked button per number
\* (the shuffle only decides where each label is drawn).
NR_create_game_grid(w) ==
  [w EXCEPT !.self.buttons = [i \in 1..w.self.total_numbers |-> FALSE],
            !.pending = [k \in DOMAIN @ |->
                           IF @[k].fn = "flash" THEN [@[k] EXCEPT !.b = 0] ELSE @[k]]]

\* start_round
RECURSIVE NR_start_round(_, _)
NR_start_round(w, env) ==
  IF w.self.current_player >= Len(w.self.players) THEN EndGame(w, env)
  ELSE IF w.self.players[w.self.current_player + 1].completed
       THEN NR_start_round([w EXCEPT !.self.current_player = @ + 1], env)
       ELSE NR_update_timer(NR_create_game_grid(
              [w EXCEPT !.self.current_number = 1,
                        !.self.start_time = TRUE,
                        !.self.game_active = TRUE,
                        !.self.start_btn = IF @ = "none" THEN @ ELSE "hidden"]))

\* setup screen's start_game
NR_start_game(w, env, n, level) ==
  NR_start_round(
    [w EXCEPT !.self.players =
                [i \in 1..n |-> [name |-> DefaultNames[i], score |-> 0,
                                 time |-> 0, completed |-> FALSE]],
              !.self.num_players = n,
              !.self.current_level = level,
              !.self.total_numbers = NR_Numbers(level),
              !.self.phase = "playing",
              !.self.start_btn = "shown"], env)

\* number_clicked's wrong-number branch: an unclicked button flashes red and
\* a 200 ms callback restores its colour.
NR_flash_wrong(w, num) ==
  IF ~w.self.buttons[num] THEN After(w, Callback("flash", 200, 0, num, 1)) ELSE w

\* A number_clicked that accepts any number not clicked yet.
NR_number_clicked_any_order(w, env, num) ==
  IF ~w.self.game_active THEN w
  ELSE IF ~w.self.buttons[num]
       THEN LET w1 == [w EXCEPT !.self.buttons[num] = TRUE,
                                !.self.current_number = @ + 1]
            IN IF w1.self.current_number > w1.self.total_numbers
               THEN NR_round_complete(w1, env) ELSE w1
       ELSE w

\* number_clicked
NR_number_clicked(w, env, num) ==
  IF ~w.self.game_active THEN w
  ELSE IF num = w.self.current_number
       THEN LET w1 == [w EXCEPT !.self.buttons[num] = TRUE,
                                !.self.current_number = @ + 1]
            IN IF w1.self.current_number > w1.self.total_numbers
               THEN NR_round_complete(w1, env) ELSE w1
       ELSE NR_flash_wrong(w, num)

\* The red flash's restore callback: w.config on the button it closed over
\* raises TclError once that button is destroyed; no field is touched.
NR_flash_restore(w, alive) ==
  IF alive = 0 \/ w.self.phase = "left" THEN [w EXCEPT !.raised = TRUE] ELSE w

\* A back_to_menu that finalizes the session like end_game before leaving.
TimerGame_back_to_menu_saves(w) ==
  [EndGame(w, [elapsed |-> 0, ts |-> "2026-01-01 10:00", ok |-> "ok",
               q |-> 0, symbols |-> <<>>])
     EXCEPT !.self.phase = "left"]

\* back_to_menu: stop, cancel the timer, destroy the widgets, show the menu.
TimerGame_back_to_menu(w) ==
  [CancelTimer([w EXCEPT !.self.game_active = FALSE]) EXCEPT !.self.phase = "left"]

\* ============================================================= Color Blast
NumAnswers == 4

CB_Time(level) == Min(CB_LEVELS[level].time, MaxTime)
CB_Target(level) == Min(CB_LEVELS[level].target, MaxTarget)

\* ColorBlastGame.__init__ (answer_state: the four answer buttons' Tk state)
CB_New ==
  [game |-> "Color Blast", phase |-> "setup", score |-> 0,
   time_left |-> CB_Time(1), game_active |-> FALSE, correct_answer |-> 0,
   timer_id |-> 0, num_players |-> 1, current_player |-> 0, players |-> <<>>,
   current_level |-> 1, target_score |-> CB_Target(1), start_btn |-> "none",
   answer_state |-> "normal"]

\* A new_question without the game_active test.
CB_new_question_unguarded(w, q) ==
  [w EXCEPT !.self.correct_answer = q, !.self.answer_state = "normal"]

\* new_question: q is the slot random.shuffle gives the correct colour.
CB_new_question(w, q) ==
  IF ~w.self.game_active THEN w
  ELSE [w EXCEPT !.self.correct_answer = q, !.self.answer_state = "normal"]

\* A check_answer without the game_active test.
CB_check_answer_unguarded(w, idx) ==
  IF idx = w.self.correct_answer
  THEN After([w EXCEPT !.self.score = @ + 1],
             Callback("new_question", 200, 0, 0, 0))
  ELSE After([w EXCEPT !.self.answer_state = "disabled"],
             Callback("new_question", 800, 0, 0, 0))

\* A check_answer that stops the round when the score reaches the target.
CB_check_answer_ends_at_target(w, idx) ==
  IF ~w.self.game_active THEN w
  ELSE IF idx = w.self.correct_answer
       THEN LET w1 == [w EXCEPT !.self.score = @ + 1]
            IN IF w1.self.score >= w1.self.target_score
               THEN [w1 EXCEPT !.self.game_active = FALSE]
               ELSE After(w1, Callback("new_question", 200, 0, 0, 0))
       ELSE After([w EXCEPT !.self.answer_state = "disabled"],
                  Callback("new_question", 800, 0, 0, 0))

\* A check_answer in which a wrong answer ends the round.
CB_check_answer_wrong_ends_round(w, idx) ==
  IF ~w.self.game_active THEN w
  ELSE IF idx = w.self.correct_answer
       THEN After([w EXCEPT !.self.score = @ + 1],
                  Callback("new_question", 200, 0, 0, 0))
       ELSE After([w EXCEPT !.self.answer_state = "disabled",
                            !.self.game_active = FALSE],
                  Callback("new_question", 800, 0, 0, 0))

\* check_answer
CB_check_answer(w, idx) ==
  IF ~w.self.game_active THEN w
  ELSE IF idx = w.self.correct_answer
       THEN After([w EXCEPT !.self.score = @ + 1],
                  Callback("new_question", 200, 0, 0, 0))
       ELSE After([w EXCEPT !.self.answer_state = "disabled"],
                  Callback("new_question", 800, 0, 0, 0))

\* A score that counts only the answers beyond the first.
CB_ScoreBeyondFirst(correct, level) == (correct - 1) * level * 10

CB_Score(correct, level) == correct * level * 10

\* A round_over that marks the slot completed only when the target was met.
CB_round_over_needs_target(w, env) ==
  LET w1 == [w EXCEPT !.self.game_active = FALSE]
      cp == w1.self.current_player + 1
  IN IF w1.self.current_player >= Len(w1.self.players) THEN EndGame(w1, env)
     ELSE LET w2 == [w1 EXCEPT !.self.players[cp] =
                       [@ EXCEPT !.score = CB_Score(w1.self.score, w1.self.current_level),
                                 !.completed = w1.self.score >= w1.self.target_score],
                                !.self.current_player = @ + 1]
          IN IF w2.self.current_player < w2.self.num_players
             THEN [w2 EXCEPT !.self.start_btn = IF @ = "none" THEN @ ELSE "shown"]
             ELSE EndGame(w2, env)

\* round_over: the result dialog is shown between writing the slot and
\* advancing current_player; only no-op callbacks can run while it is open.
CB_round_over(w, env) ==
  LET w1 == [w EXCEPT !.self.game_active = FALSE]
      cp == w1.self.current_player + 1
  IN IF w1.self.current_player >= Len(w1.self.players) THEN EndGame(w1, env)
     ELSE LET w2 == [w1 EXCEPT !.self.players[cp] =
                       [@ EXCEPT !.score = CB_Score(w1.self.score, w1.self.current_level),
                                 !.completed = TRUE],
                                !.self.current_player = @ + 1]
          IN IF w2.self.current_player < w2.self.num_players
             THEN [w2 EXCEPT !.self.start_btn = IF @ = "none" THEN @ ELSE "shown"]
             ELSE EndGame(w2, env)

\* A countdown that stops at zero without calling round_over.
CB_countdown_no_round_over(w, env) ==
  IF ~w.self.game_active THEN w
  ELSE IF w.self.time_left > 0
       THEN LET id == FreshId(w, {})
            IN After([w EXCEPT !.self.time_left = @ - 1, !.self.timer_id = id],
                     Callback("countdown", 1000, id, 0, 0))
       ELSE w

\* countdown
CB_countdown(w, env) ==
  IF ~w.self.game_active THEN w
  ELSE IF w.self.time_left > 0
       THEN LET id == FreshId(w, {})
            IN After([w EXCEPT !.self.time_left = @ - 1, !.self.timer_id = id],
                     Callback("countdown", 1000, id, 0, 0))
       ELSE CB_round_over(w, env)

\* A start_round that leaves the count of the round before in place.
RECURSIVE CB_start_round_keeps_score(_, _)
CB_start_round_keeps_score(w, env) ==
  IF w.self.current_player >= Len(w.self.players) THEN EndGame(w, env)
  ELSE IF w.self.players[w.self.current_player + 1].completed
       THEN CB_start_round_keeps_score([w EXCEPT !.self.current_player = @ + 1], env)
       ELSE CB_countdown(CB_new_question(
              [w EXCEPT !.self.time_left = CB_Time(w.self.current_level),
                        !.self.game_active = TRUE,
                        !.self.start_btn = IF @ = "none" THEN @ ELSE "hidden"],
              env.q), env)

\* A start_round without the test of the completed flag.
CB_start_round_no_skip(w, env) ==
  IF w.self.current_player >= Len(w.self.players) THEN EndGame(w, env)
  ELSE CB_countdown(CB_new_question(
         [w EXCEPT !.self.score = 0,
                   !.self.time_left = CB_Time(w.self.current_level),
                   !.self.game_active = TRUE,
                   !.self.start_btn = IF @ = "none" THEN @ ELSE "hidden"],
         env.q), env)

\* start_round
RECURSIVE CB_start_round(_, _)
CB_start_round(w, env) ==
  IF w.self.current_player >= Len(w.self.players) THEN EndGame(w, env)
  ELSE IF w.self.players[w.self.current_player + 1].completed
       THEN CB_start_round([w EXCEPT !.self.current_player = @ + 1], env)
       ELSE CB_countdown(CB_new_question(
              [w EXCEPT !.self.score = 0,
                        !.self.time_left = CB_Time(w.self.current_level),
                        !.self.game_active = TRUE,
                        !.self.start_btn = IF @ = "none" THEN @ ELSE "hidden"],
              env.q), env)

\* setup screen's start_game
CB_start_game(w, env, n, level) ==
  CB_start_round(
    [w EXCEPT !.self.players =
                [i \in 1..n |-> [name |-> DefaultNames[i], score |-> 0,
                                 completed |-> FALSE]],
              !.self.num_players = n,
              !.self.current_level = level,
              !.self.time_left = CB_Time(level),
              !.self.target_score = CB_Target(level),
              !.self.phase = "playing",
              !.self.start_btn = "shown"], env)

\* ============================================================ Memory Match
\* Pairs dealt at a level: SYMBOL_SETS[theme][:total_pairs], every theme
\* holding NumSymbols symbols, cut down to MaxPairs.
MM_Pairs(level) == Min(Min(MM_LEVELS[level].pairs, NumSymbols), MaxPairs)

\* Cards laid out by start_level's grid loops.
MM_NumCards(level) ==
  Min(MM_LEVELS[level].grid * MM_LEVELS[level].grid, 2 * MM_Pairs(level))

\* random.shuffle(symbols): every order of the doubled symbol list. Symbols
\* are only ever compared for equality, so orders are taken up to renaming.
Arrangements(k) ==
  {a \in [1..(2 * k) -> 1..k] :
     /\ \A s \in 1..k : Cardinality({i \in 1..(2 * k) : a[i] = s}) = 2
     /\ \A s \in 1..(k - 1) :
          (CHOOSE i \in 1..(2 * k) : a[i] = s /\ \A j \in 1..(i - 1) : a[j] # s)
          < (CHOOSE i \in 1..(2 * k) : a[i] = s + 1 /\ \A j \in 1..(i - 1) : a[j] # s + 1)}

\* MemoryMatchGame.__init__ (modal: the message box level_complete is
\* waiting in, "none" outside it)
MM_New ==
  [game |-> "Memory Match", phase |-> "setup", cards |-> <<>>, flipped |-> <<>>,
   matched |-> <<>>, moves |-> 0, check_id |-> 0, num_players |-> 1,
   current_player |-> 0, players |-> <<>>, current_level |-> 1,
   grid_size |-> 4, total_pairs |-> 8, modal |-> "none"]

\* A start_level that leaves the turn with whoever had it.
MM_start_level_keeps_turn(w, env) ==
  LET w1 == [w EXCEPT !.self.cards = <<>>, !.self.flipped = <<>>,
                      !.self.matched = <<>>, !.self.moves = 0,
                      !.self.players =
                         [i \in DOMAIN @ |-> [@[i] EXCEPT !.matches = 0, !.streak = 0]]]
      n == MM_NumCards(w.self.current_level)
  IN IF w.self.phase = "left" THEN [w1 EXCEPT !.raised = TRUE]
     ELSE [w1 EXCEPT !.self.cards =
             [i \in 1..n |-> [symbol |-> env.symbols[i],
                              flipped |-> FALSE, matched |-> FALSE]]]

\* A start_level whose reset of the player stats also clears the scores.
MM_start_level_resets_scores(w, env) ==
  LET w1 == [w EXCEPT !.self.cards = <<>>, !.self.flipped = <<>>,
                      !.self.matched = <<>>, !.self.moves = 0,
                      !.self.players =
                         [i \in DOMAIN @ |->
                            [@[i] EXCEPT !.matches = 0, !.streak = 0, !.score = 0]],
                      !.self.current_player = 0]
      n == MM_NumCards(w.self.current_level)
  IN IF w.self.phase = "left" THEN [w1 EXCEPT !.raised = TRUE]
     ELSE [w1 EXCEPT !.self.cards =
             [i \in 1..n |-> [symbol |-> env.symbols[i],
                              flipped |-> FALSE, matched |-> FALSE]]]

\* start_level: env.symbols is the shuffled symbol list. With the widgets
\* destroyed, grid_container.winfo_children() raises TclError after the
\* fields were reset.
MM_start_level(w, env) ==
  LET w1 == [w EXCEPT !.self.cards = <<>>, !.self.flipped = <<>>,
                      !.self.matched = <<>>, !.self.moves = 0,
                      !.self.players =
                         [i \in DOMAIN @ |-> [@[i] EXCEPT !.matches = 0, !.streak = 0]],
                      !.self.current_player = 0]
      n == MM_NumCards(w.self.current_level)
  IN IF w.self.phase = "left" THEN [w1 EXCEPT !.raised = TRUE]
     ELSE [w1 EXCEPT !.self.cards =
             [i \in 1..n |-> [symbol |-> env.symbols[i],
                              flipped |-> FALSE, matched |-> FALSE]]]

\* setup screen's start_game
MM_start_game(w, env, n, level) ==
  MM_start_level(
    [w EXCEPT !.self.players =
                [i \in 1..n |-> [name |-> DefaultNames[i], score |-> 0,
                                 matches |-> 0, streak |-> 0]],
              !.self.num_players = n,
              !.self.current_level = level,
              !.self.grid_size = MM_LEVELS[level].grid,
              !.self.total_pairs = MM_LEVELS[level].pairs,
              !.self.phase = "playing"], env)

\* flip_card (idx counts from 0, as in the code)
MM_flip_card(w, idx) ==
  IF idx >= Len(w.self.cards) THEN w
  ELSE LET card == w.self.cards[idx + 1]
       IN IF card.flipped \/ card.matched \/ Len(w.self.flipped) >= 2 THEN w
          ELSE LET w1 == [w EXCEPT !.self.cards[idx + 1].flipped = TRUE,
                                   !.self.flipped = Append(@, idx)]
               IN IF Len(w1.self.flipped) = 2
                  THEN LET id == FreshId(w1, {})
                       IN After([w1 EXCEPT !.self.moves = @ + 1, !.self.check_id = id],
                                Callback("check_match", 600, id, 0, 0))
                  ELSE w1

\* Match points whose multiplier uses the streak before the increment.
MM_MatchPointsPriorStreak(level, streak) == (10 * level) * (1 + ((streak - 1) \div 3))

MM_MatchPoints(level, streak) == (10 * level) * (1 + (streak \div 3))

\* check_match: drawing on a destroyed canvas raises TclError, which leaves
\* the handler where the first canvas call stands.
MM_check_match(w) ==
  IF Len(w.self.flipped) # 2 THEN w
  ELSE
    LET idx1 == w.self.flipped[1]
        idx2 == w.self.flipped[2]
        cp == w.self.current_player + 1
    IN IF w.self.cards[idx1 + 1].symbol = w.self.cards[idx2 + 1].symbol
       THEN LET w1 == [w EXCEPT !.self.cards[idx1 + 1].matched = TRUE,
                                !.self.cards[idx2 + 1].matched = TRUE,
                                !.self.matched = @ \o <<idx1, idx2>>]
            IN IF w.self.phase = "left" THEN [w1 EXCEPT !.raised = TRUE]
               ELSE LET streak == w1.self.players[cp].streak + 1
                        w2 == [w1 EXCEPT !.self.players[cp] =
                                 [@ EXCEPT !.matches = @ + 1, !.streak = streak,
                                           !.score = @ + MM_MatchPoints(w1.self.current_level, streak)]]
                        w3 == IF Len(w2.self.matched) >= Len(w2.self.cards)
                              THEN After(w2, Callback("level_complete", 500, 0, 0, 0))
                              ELSE w2
                    IN [w3 EXCEPT !.self.flipped = <<>>]
       ELSE IF w.self.phase = "left" THEN [w EXCEPT !.raised = TRUE]
            ELSE LET w1 == [w EXCEPT !.self.players[cp].streak = 0]
                     w2 == IF w1.self.num_players > 1
                           THEN [w1 EXCEPT !.self.current_player = (@ + 1) % w1.self.num_players]
                           ELSE w1
                 IN [After(w2, Callback("flip_back", 400, 0, idx1, idx2))
                       EXCEPT !.self.flipped = <<>>]

\* flip_back(idx1, idx2): turns each card that is still on the board face
\* down; on a destroyed canvas the first card reached raises TclError.
MM_flip_back(w, idx1, idx2) ==
  LET n == Len(w.self.cards)
      down(v, i) == IF i < n THEN [v EXCEPT !.self.cards[i + 1].flipped = FALSE] ELSE v
  IN IF w.self.phase = "left"
     THEN IF idx1 < n THEN [down(w, idx1) EXCEPT !.raised = TRUE]
          ELSE IF idx2 < n THEN [down(w, idx2) EXCEPT !.raised = TRUE]
          ELSE w
     ELSE down(down(w, idx1), idx2)

\* save_results: one add_score per roster player from player i on.
RECURSIVE MM_SaveFrom(_, _, _)
MM_SaveFrom(w, env, i) ==
  IF i > Len(w.self.players) THEN w
  ELSE LET p == w.self.players[i]
       IN MM_SaveFrom(SbAddScore(w, env, "Memory Match", p.name, p.score,
                                 w.self.current_level), env, i + 1)

\* A save_results that leaves out the first player of the roster.
MM_save_results_skips_first(w, env) == MM_SaveFrom(w, env, 2)

MM_save_results(w, env) == MM_SaveFrom(w, env, 1)

\* level_complete up to its message box: the bonus, then the question
\* (below the last level) or the final notice.
MM_level_complete(w) ==
  LET bonus == MM_LEVELS[w.self.current_level].bonus
  IN [w EXCEPT !.self.players =
                 [i \in DOMAIN @ |->
                    IF @[i].matches > 0 THEN [@[i] EXCEPT !.score = @ + bonus] ELSE @[i]],
               !.self.modal = IF w.self.current_level < MaxLevel THEN "ask" ELSE "final"]

\* level_complete from the message box on: yes is the askyesno answer.
MM_level_complete_answer(w, env, yes) ==
  LET w1 == [w EXCEPT !.self.modal = "none"]
  IN IF w.self.modal = "ask" /\ yes
     THEN LET lv == w1.self.current_level + 1
          IN MM_start_level([w1 EXCEPT !.self.current_level = lv,
                                       !.self.grid_size = MM_LEVELS[lv].grid,
                                       !.self.total_pairs = MM_LEVELS[lv].pairs], env)
     ELSE MM_save_results(w1, env)

\* back_to_menu: cancels the pending check, destroys the widgets.
MM_back_to_menu(w) ==
  LET w1 == IF w.self.check_id # 0
            THEN [AfterCancel(w, w.self.check_id) EXCEPT !.self.check_id = 0]
            ELSE w
  IN [w1 EXCEPT !.self.phase = "left"]

\* ================================================================ actions
\* What a handler draws from its environment: the elapsed time of a Number
\* Rush round, the clock reading and writability of scores.json, the slot of
\* the next Color Blast question, the shuffled Memory Match board. The games
\* run with a writable scores.json here; failing writes are followed in the
\* store's own specification.
Env(elapsed, ts, ok, q, symbols) ==
  [elapsed |-> elapsed, ts |-> ts, ok |-> ok, q |-> q, symbols |-> symbols]

Playing == self.phase = "playing"

\* The level picked on the setup screen (level_var).
StartLevels == (MaxLevel - Min(StartSpan, MaxLevel - 1))..MaxLevel

\* The setup screen's START GAME button.
start_game ==
  /\ self.phase = "setup"
  /\ \E n \in 1..MaxPlayers, level \in StartLevels, q \in 0..(NumAnswers - 1) :
     \E symbols \in Arrangements(MM_Pairs(level)) :
       LET env == Env(0, "", "denied", q, symbols)
       IN Commit(CASE self.game = "Number Rush" -> NR_start_game(World, env, n, level)
                   [] self.game = "Color Blast" -> CB_start_game(World, env, n, level)
                   [] OTHER -> MM_start_game(World, env, n, level),
                 "start_game")

\* The setup screen's back button (_cancel_setup).
cancel_setup ==
  /\ self.phase = "setup"
  /\ Commit([World EXCEPT !.self.phase = "left"], "cancel_setup")

\* The Next Player button of the timer games (command=self.start_round).
start_round ==
  /\ Playing /\ self.game \in {"Number Rush", "Color Blast"}
  /\ self.start_btn = "shown"
  /\ \E ts \in Timestamps, q \in 0..(NumAnswers - 1) :
       LET env == Env(0, ts, "ok", q, <<>>)
       IN Commit(IF self.game = "Number Rush" THEN NR_start_round(World, env)
                 ELSE CB_start_round(World, env), "start_round")

\* A click on a number label of the Number Rush grid.
number_clicked ==
  /\ Playing /\ self.game = "Number Rush"
  /\ \E num \in DOMAIN self.buttons, elapsed \in ElapsedChoices, ts \in Timestamps :
       LET w == NR_number_clicked(World, Env(elapsed, ts, "ok", 0, <<>>), num)
       IN /\ Len(w.pending) <= MaxPending
          /\ Commit(w, "number_clicked")

\* The 200 ms colour restore of a wrongly clicked Number Rush button fires.
flash_restore ==
  /\ self.game = "Number Rush"
  /\ \E k \in 1..Len(pending) :
       /\ CanFire(k) /\ pending[k].fn = "flash"
       /\ Commit(NR_flash_restore(Fired(k), pending[k].b), "flash_restore")

\* The 50 ms timer of Number Rush fires.
update_timer ==
  /\ self.game = "Number Rush"
  /\ \E k \in 1..Len(pending) :
       /\ CanFire(k) /\ pending[k].fn = "update_timer"
       /\ Commit(NR_update_timer(Fired(k)), "update_timer")

\* A click on one of the four Color Blast answer buttons (a disabled button
\* invokes nothing).
check_answer ==
  /\ Playing /\ self.game = "Color Blast"
  /\ self.answer_state = "normal"
  /\ \E idx \in 0..(NumAnswers - 1) :
       /\ self.game_active =>
            /\ Cardinality({k \in DOMAIN pending : pending[k].fn = "new_question"})
                 < MaxPending
            /\ idx = self.correct_answer => self.score < MaxScore
       /\ Commit(CB_check_answer(World, idx), "check_answer")

\* The one-second countdown of Color Blast fires.
countdown ==
  /\ self.game = "Color Blast"
  /\ \E k \in 1..Len(pending), ts \in Timestamps :
       /\ CanFire(k) /\ pending[k].fn = "countdown"
       /\ Commit(CB_countdown(Fired(k), Env(0, ts, "ok", 0, <<>>)), "countdown")

\* A delayed new_question of Color Blast fires.
new_question ==
  /\ self.game = "Color Blast"
  /\ \E k \in 1..Len(pending), q \in 0..(NumAnswers - 1) :
       /\ CanFire(k) /\ pending[k].fn = "new_question"
       /\ Commit(CB_new_question(Fired(k), q), "new_question")

MMInput == Playing /\ self.game = "Memory Match" /\ self.modal = "none"

\* The Restart button of Memory Match (command=self.start_level).
start_level ==
  /\ MMInput
  /\ restarts < MaxRestarts
  /\ \E symbols \in Arrangements(MM_Pairs(self.current_level)) :
       Commit(MM_start_level(World, Env(0, "", "denied", 0, symbols)), "start_level")

\* A click that reaches flip_card; Len(self.cards) names a slot that is not
\* on the board.
flip_card ==
  /\ MMInput
  /\ \E idx \in 0..Len(self.cards) :
       /\ MM_flip_card(World, idx) # World => self.moves < MaxMoves
       /\ Commit(MM_flip_card(World, idx), "flip_card")

\* The 600 ms check of a flipped pair fires.
check_match ==
  /\ self.game = "Memory Match"
  /\ \E k \in 1..Len(pending) :
       /\ CanFire(k) /\ pending[k].fn = "check_match"
       /\ Commit(MM_check_match(Fired(k)), "check_match")

\* The 400 ms flip_back of a mismatched pair fires.
flip_back ==
  /\ self.game = "Memory Match"
  /\ \E k \in 1..Len(pending) :
       /\ CanFire(k) /\ pending[k].fn = "flip_back"
       /\ Commit(MM_flip_back(Fired(k), pending[k].a, pending[k].b), "flip_back")

\* The 500 ms level_complete fires and opens its message box.
level_complete ==
  /\ self.game = "Memory Match" /\ self.modal = "none"
  /\ \E k \in 1..Len(pending) :
       /\ CanFire(k) /\ pending[k].fn = "level_complete"
       /\ Commit(MM_level_complete(Fired(k)), "level_complete")

\* The player answers level_complete's message box.
level_complete_answer ==
  /\ self.game = "Memory Match" /\ self.modal # "none"
  /\ \E yes \in BOOLEAN, ts \in Timestamps,
        symbols \in Arrangements(MM_Pairs(Min(self.current_level + 1, MaxLevel))) :
       /\ self.modal = "final" => yes
       /\ Commit(MM_level_complete_answer(World, Env(0, ts, "ok", 0, symbols), yes),
                 "level_complete_answer")

\* The game screen's back button.
back_to_menu ==
  /\ Playing
  /\ self.game = "Memory Match" => self.modal = "none"
  /\ Commit(IF self.game = "Memory Match" THEN MM_back_to_menu(World)
            ELSE TimerGame_back_to_menu(World), "back_to_menu")

Init ==
  /\ self \in {NR_New, CB_New, MM_New}
  /\ scores = EmptyStore
  /\ file = [kind |-> "missing", doc |-> EmptyStore]
  /\ pending = <<>>
  /\ add_calls = 0
  /\ restarts = 0
  /\ last = [op |-> "launch", raised |-> FALSE]

NextTimer ==
  \/ start_game
  \/ cancel_setup
  \/ start_round
  \/ number_clicked
  \/ update_timer
  \/ flash_restore
  \/ check_answer
  \/ countdown
  \/ new_question
  \/ back_to_menu

NextMem ==
  \/ start_game
  \/ cancel_setup
  \/ start_level
  \/ flip_card
  \/ check_match
  \/ flip_back
  \/ level_complete
  \/ level_complete_answer
  \/ back_to_menu

Next ==
  \/ start_game
  \/ cancel_setup
  \/ start_round
  \/ number_clicked
  \/ update_timer
  \/ flash_restore
  \/ check_answer
  \/ countdown
  \/ new_question
  \/ start_level
  \/ flip_card
  \/ check_match
  \/ flip_back
  \/ level_complete
  \/ level_complete_answer
  \/ back_to_menu

\* Any of the three games, launched from the menu.
Spec == Init /\ [][Next]_vars

\* Number Rush or Color Blast.
InitTimer == Init /\ self.game # "Memory Match"

SpecTimer == InitTimer /\ [][NextTimer]_vars

\* Memory Match.
InitMem == Init /\ self.game = "Memory Match"

SpecMem == InitMem /\ [][NextMem]_vars

\* ============================================== the store on its own
\* Records found in a scores.json left by earlier runs or edited by hand.
Rec(name, score, level) == PlayerScore("Memory Match", name, score, level, "2025-12-31 23:59")

FullList ==
  <<Rec("Ada", 20, 2), Rec("Bob", 20, 1), Rec("Cy", 20, 1), Rec("Ada", 10, 2),
    Rec("Bob", 10, 2), Rec("Cy", 10, 1), Rec("Ada", 10, 1), Rec("Bob", 5, 2),
    Rec("Cy", 5, 1), Rec("Ada", 5, 1)>>

\* Records in no order, of which a file holds the first eleven or the ten
\* after the first: load_scores takes the document as it is.
UnsortedList ==
  <<Rec("Cy", 5, 1), Rec("Ada", 20, 1), Rec("Bob", 10, 2), Rec("Ada", 10, 1)>>
  \o FullList \o <<Rec("Bob", 20, 2)>>

StoredDocs ==
  {EmptyStore,
   [EmptyStore EXCEPT !["Memory Match"] = FullList],
   [EmptyStore EXCEPT !["Memory Match"] = SubSeq(UnsortedList, 1, TopN + 1)],
   [EmptyStore EXCEPT !["Memory Match"] = SubSeq(UnsortedList, 2, TopN + 1)],
   [g \in {"Memory Match"} |-> SubSeq(FullList, 1, 2)],
   JsonArray}

StoredFiles ==
  {[kind |-> k, doc |-> EmptyStore] : k \in {"missing", "unreadable", "corrupt"}}
  \cup {[kind |-> "json", doc |-> d] : d \in StoredDocs}

\* A load_scores that parses the file and keeps the three empty lists.
LoadScoresKeepsDefaults(f) == EmptyStore

\* load_scores' effect on self.scores: the parsed document takes the place
\* of the three empty lists when the file exists, opens and parses.
LoadScores(f) == IF f.kind = "json" THEN f.doc ELSE EmptyStore

\* A constructor whose load_scores lets the exception through.
ConstructUnguarded(f) ==
  [scores |-> LoadScores(f), raised |-> f.kind \in {"unreadable", "corrupt"}]

\* ScoreboardManager(): load_scores catches every Exception of exists, open
\* and json.load.
Construct(f) == [scores |-> LoadScores(f), raised |-> FALSE]

\* A get_top_scores that keeps its slice as the game's list.
SbGetTopScoresKeepsSlice(w, game, limit) ==
  IF ~IsDict(w.scores) THEN [w EXCEPT !.raised = TRUE]
  ELSE IF game \in DOMAIN w.scores
       THEN [w EXCEPT !.scores[game] = Slice(@, limit)]
       ELSE w

\* get_top_scores as a call: .get raises AttributeError on a store that is
\* no dict; nothing is assigned.
SbGetTopScores(w, game, limit) ==
  IF ~IsDict(w.scores) THEN [w EXCEPT !.raised = TRUE] ELSE w

\* get_player_rank as a call.
SbGetPlayerRank(w, game, name) ==
  IF ~IsDict(w.scores) THEN [w EXCEPT !.raised = TRUE] ELSE w

NoGame == [game |-> "none", phase |-> "menu"]

InitStore ==
  /\ file \in StoredFiles
  /\ scores = Construct(file).scores
  /\ self = NoGame
  /\ pending = <<>>
  /\ add_calls = 0
  /\ restarts = 0
  /\ last = [op |-> "construct", raised |-> Construct(file).raised,
             game |-> "", ret |-> TRUE]

StoreNames == {"Ada", "Bob"}
\* (score, level) of the results recorded: one that ranks with the best
\* stored entries, one that ranks below them all.
StoreResults == {<<20, 2>>, <<5, 1>>}
StoreGames == {"Memory Match", "Color Blast", "Chess"}
Limits == {1, 10}

\* scoreboard.add_score(game, player_name, score, level); rec is the record
\* it builds and write the outcome of save_scores.
add_score ==
  /\ add_calls < MaxAdds
  /\ \E game \in StoreGames, name \in StoreNames, res \in StoreResults,
        ts \in Timestamps, ok \in WriteOutcomes :
       LET score == res[1]
           level == res[2]
           env == Env(0, ts, ok, 0, <<>>)
           w == SbAddScore(World, env, game, name, score, level)
       IN /\ scores' = w.scores
          /\ file' = w.file
          /\ add_calls' = w.add_calls
          /\ last' = [op |-> "add_score", raised |-> w.raised, game |-> game,
                      ret |-> SbAddScoreReturns(World, env, game, name, score, level),
                      rec |-> PlayerScore(game, name, score, level, ts),
                      write |-> ok]
          /\ UNCHANGED <<self, pending, restarts>>

\* scoreboard.get_top_scores(game, limit)
get_top_scores ==
  \E game \in StoreGames, limit \in Limits :
    LET w == SbGetTopScores(World, game, limit)
    IN /\ scores' = w.scores
       /\ file' = w.file
       /\ last' = [op |-> "get_top_scores", raised |-> w.raised, game |-> game,
                   ret |-> IF w.raised THEN <<>> ELSE TopScores(scores, game, limit),
                   arg |-> limit]
       /\ UNCHANGED <<self, pending, add_calls, restarts>>

\* scoreboard.get_player_rank(game, player_name)
get_player_rank ==
  \E game \in StoreGames, name \in {"Ada", "Cy"} :
    LET w == SbGetPlayerRank(World, game, name)
    IN /\ scores' = w.scores
       /\ file' = w.file
       /\ last' = [op |-> "get_player_rank", raised |-> w.raised, game |-> game,
                   ret |-> IF w.raised THEN 0 ELSE PlayerRank(scores, game, name),
                   arg |-> name]
       /\ UNCHANGED <<self, pending, add_calls, restarts>>

\* The process is started again: a new ScoreboardManager reads the file.
construct ==
  /\ last.op # "construct"
  /\ scores' = Construct(file).scores
  /\ last' = [op |-> "construct", raised |-> Construct(file).raised,
              game |-> "", ret |-> TRUE]
  /\ UNCHANGED <<self, file, pending, add_calls, restarts>>

NextStore == add_score \/ get_top_scores \/ get_player_rank \/ construct

SpecStore == InitStore /\ [][NextStore]_vars

\* ------------------------------------------------- Memory Match scoring
\* Cards start_level deals at a level in the program itself: the symbol list
\* doubled, laid out on at most grid * grid cells.
MM_DealtCards(level) ==
  Min(MM_LEVELS[level].grid * MM_LEVELS[level].grid,
      2 * Min(MM_LEVELS[level].pairs, NumSymbols))

\* The score of a player whose first s checks of the level all matched.
RECURSIVE MM_RunScore(_, _)
MM_RunScore(level, s) ==
  IF s = 0 THEN 0 ELSE MM_RunScore(level, s - 1) + MM_MatchPoints(level, s)

\* A session started at `level` with n players in which Player 1 has matched
\* the first s pairs in a row and has two more cards face up, cards 2s and
\* 2s + 1 (a pair) or 2s and 2s + 2 (no pair), their check scheduled. The
\* deal puts the two cards of pair k at indices 2k - 2 and 2k - 1.
MM_MidLevel(level, n, s, pair) ==
  LET other == IF pair THEN 2 * s + 1 ELSE 2 * s + 2
  IN [MM_New EXCEPT
        !.phase = "playing",
        !.num_players = n,
        !.current_level = level,
        !.grid_size = MM_LEVELS[level].grid,
        !.total_pairs = MM_LEVELS[level].pairs,
        !.players = [i \in 1..n |->
                       [name |-> DefaultNames[i],
                        score |-> IF i = 1 THEN MM_RunScore(level, s) ELSE 0,
                        matches |-> IF i = 1 THEN s ELSE 0,
                        streak |-> IF i = 1 THEN s ELSE 0]],
        !.cards = [i \in 1..MM_DealtCards(level) |->
                     [symbol |-> (i + 1) \div 2,
                      flipped |-> i <= 2 * s \/ i = 2 * s + 1 \/ i = other + 1,
                      matched |-> i <= 2 * s]],
        !.matched = [i \in 1..(2 * s) |-> i - 1],
        !.flipped = <<2 * s, other>>,
        !.moves = s + 1,
        !.check_id = 1]

InitScore ==
  /\ \E level \in 1..MaxLevel, n \in 1..2, s \in 0..MaxStreak, pair \in BOOLEAN :
       self = MM_MidLevel(level, n, s, pair)
  /\ scores = EmptyStore
  /\ file = [kind |-> "missing", doc |-> EmptyStore]
  /\ pending = <<Callback("check_match", 600, 1, 0, 0)>>
  /\ add_calls = 0
  /\ restarts = 0
  /\ last = [op |-> "flip_card", raised |-> FALSE]

NextScore ==
  \/ check_match
  \/ flip_back

\* Memory Match from a position inside a level, up to the end of the check.
SpecScore == InitScore /\ [][NextScore]_vars

\* -------------------------------------------------- Number Rush scoring
\* A session started at `level` with n players in which Player 1's round is
\* running and every number but the last `left` ones has been clicked.
NR_LateRound(level, n, left) ==
  LET total == NR_LEVELS[level].numbers
  IN [NR_New EXCEPT
        !.phase = "playing",
        !.num_players = n,
        !.current_level = level,
        !.total_numbers = total,
        !.players = [i \in 1..n |-> [name |-> DefaultNames[i], score |-> 0,
                                     time |-> 0, completed |-> FALSE]],
        !.buttons = [i \in 1..total |-> i <= total - left],
        !.current_number = total - left + 1,
        !.start_time = TRUE,
        !.game_active = TRUE,
        !.timer_id = 1,
        !.start_btn = "hidden"]

InitRush ==
  /\ \E level \in 1..MaxLevel, n \in 1..2, left \in 1..2 :
       self = NR_LateRound(level, n, left)
  /\ scores = EmptyStore
  /\ file = [kind |-> "missing", doc |-> EmptyStore]
  /\ pending = <<Callback("update_timer", 50, 1, 0, 0)>>
  /\ add_calls = 0
  /\ restarts = 0
  /\ last = [op |-> "number_clicked", raised |-> FALSE]

NextRush ==
  \/ number_clicked
  \/ update_timer
  \/ flash_restore

\* Number Rush from the closing clicks of the first round to its end.
SpecRush == InitRush /\ [][NextRush]_vars

\* ------------------------------------------------ Color Blast to its end
InitBlast == Init /\ self.game = "Color Blast"

\* A Color Blast session that nobody leaves.
NextBlast ==
  \/ start_game
  \/ start_round
  \/ check_answer
  \/ countdown
  \/ new_question

\* The callback that was scheduled first runs: a countdown or new_question
\* step that takes the head off the queue and leaves the rest in order
\* (CanFire lets no callback but the head go with everything behind it).
HeadFires ==
  /\ pending # <<>>
  /\ last'.op \in {"countdown", "new_question"}
  /\ SubSeq(pending', 1, Len(pending) - 1) = Tail(pending)

\* Tk's event loop calls every after() callback once its delay has passed:
\* weak fairness of HeadFires, which is enabled exactly when a callback is
\* pending.
FairLoop == []<>(pending = <<>>) \/ []<><<HeadFires>>_vars

\* The event loop keeps running, and the player at the Next Player button
\* presses it.
SpecBlast ==
  /\ InitBlast /\ [][NextBlast]_vars
  /\ FairLoop
  /\ WF_vars(start_round)

\* ============================================================= properties

\* C1: directly after add_score on a game the store knows, that game's list
\* is in (score descending, then level descending) order and holds at most
\* ten entries, whatever the store was loaded with.
C1_SortedAndCapped ==
  (last.op = "add_score" /\ last.ret) =>
    LET l == scores[last.game]
    IN /\ Len(l) <= 10
       /\ \A i \in 1..Len(l) : \A j \in (i + 1)..Len(l) :
            \/ l[i].score > l[j].score
            \/ (l[i].score = l[j].score /\ l[i].level >= l[j].level)

\* An add_score on the list loaded with eleven unordered records (still the
\* file's content, the write having failed) that left ten in the store.
C1_Witness ==
  /\ last.op = "add_score" /\ last.ret /\ last.game = "Memory Match"
  /\ file.kind = "json" /\ "Memory Match" \in DOMAIN file.doc
  /\ Len(file.doc["Memory Match"]) = 11
  /\ Len(scores["Memory Match"]) = 10

\* C2: a session started with n players holds exactly n player results and
\* has made at most n add_score calls, whatever commands were given (Restart,
\* Next Player, level advance, decline).
C2_AtMostNAddScores ==
  self.players # <<>> =>
    /\ self.num_players \in 1..MaxPlayers
    /\ Len(self.players) = self.num_players
    /\ add_calls <= self.num_players

\* The pending callbacks of the round timers (Color Blast's countdown, Number
\* Rush's update_timer).
TimerTicks == {k \in 1..Len(pending) : pending[k].fn \in {"countdown", "update_timer"}}

\* C3: in the timer games at most one timer callback is pending at any time,
\* and a pending one is the live chain of the round that is running: the
\* round is active and timer_id holds the callback's id.
C3_OneTimerChain ==
  /\ Cardinality(TimerTicks) <= 1
  /\ \A k \in TimerTicks : self.game_active /\ pending[k].id = self.timer_id

\* A later player's round was started after the previous round ended and its
\* timer was cancelled: one chain is live.
C3_Witness ==
  /\ last.op = "start_round" /\ self.current_player >= 1 /\ self.game_active
  /\ Cardinality(TimerTicks) = 1

\* C4: once a game has been left (back_to_menu or destroy), no callback that
\* was scheduled before changes the game's fields (player results, round
\* state) or the leaderboard: each was cancelled or fires as a no-op.
C4_LeftIsInert ==
  [][self.phase = "left" =>
       /\ self' = self
       /\ scores' = scores
       /\ file' = file
       /\ add_calls' = add_calls]_vars

\* C5: in Memory Match no callback of a superseded round reaches the round
\* that Restart began; in particular level_complete only ever runs for a
\* board whose cards are all matched.
C5_LevelCompleteOnlyWhenAllMatched ==
  (self.game = "Memory Match" /\ last.op = "level_complete") =>
    \A i \in DOMAIN self.cards : self.cards[i].matched

TimerGame == self.game \in {"Number Rush", "Color Blast"}

\* C6 as stated: in every game current_player never decreases and stays in
\* 0..num_players.
C6_OnlyForward ==
  [][/\ self'.current_player >= self.current_player
     /\ self'.current_player \in 0..self'.num_players]_vars

\* C6, amended: in Number Rush and Color Blast current_player never
\* decreases, stays in 0..num_players, and once it equals num_players the
\* session is over (the round is inactive, no timer is pending, Next Player is
\* not offered, and no later event changes a field or the leaderboard). In
\* Memory Match current_player is the turn pointer: it stays in
\* 0..num_players-1 and a step either keeps it, passes the turn to the next
\* player modulo num_players, or (start_level) resets it to 0.
C6_ForwardOrTurn ==
  [][/\ TimerGame =>
          /\ self'.current_player >= self.current_player
          /\ self'.current_player \in 0..self'.num_players
          /\ (self'.players # <<>> /\ self'.current_player = self'.num_players) =>
               /\ ~self'.game_active
               /\ self'.start_btn # "shown"
               /\ \A k \in 1..Len(pending') :
                    pending'[k].fn \notin {"countdown", "update_timer"}
          /\ (self.players # <<>> /\ self.current_player = self.num_players) =>
               /\ [self' EXCEPT !.phase = self.phase] = self
               /\ add_calls' = add_calls /\ scores' = scores
     /\ self.game = "Memory Match" =>
          /\ self'.current_player \in 0..(self'.num_players - 1)
          /\ \/ self'.current_player = self.current_player
             \/ self'.current_player = 0
             \/ self'.current_player = (self.current_player + 1) % self.num_players]_vars

\* A two-player Color Blast session is over and a later click arrived.
C6_Witness ==
  /\ self.game = "Color Blast" /\ self.num_players = 2
  /\ self.current_player = self.num_players
  /\ last.op = "check_answer"

\* C7: in Number Rush and Color Blast a slot with completed = true keeps
\* completed, score and time through every later round, tick and input.
C7_CompletedSlotFrozen ==
  [][TimerGame =>
       \A i \in DOMAIN self.players :
         self.players[i].completed => self'.players[i] = self.players[i]]_vars

\* Both slots of a two-player session are completed: the second round ran to
\* its end over the first player's finished slot.
C7_Witness ==
  /\ TimerGame /\ Len(self.players) = 2
  /\ self.players[1].completed /\ self.players[2].completed

\* C8: a Number Rush click or a Color Blast answer that arrives while
\* game_active is false, and a Memory Match flip_card naming a slot that is
\* not on the board, raises nothing and leaves the game's fields, the
\* leaderboard and the pending callbacks as they were.
C8_IgnoredInput ==
  [][/\ (last'.op \in {"number_clicked", "check_answer"} /\ ~self.game_active) =>
          /\ UNCHANGED <<self, scores, file, pending, add_calls>>
          /\ ~last'.raised
     /\ (self.game = "Memory Match" /\ last'.op = "flip_card") =>
          \A idx \in Len(self.cards)..(Len(self.cards) + 1) :
            MM_flip_card(World, idx) = World]_vars

\* A Color Blast answer button was clicked after the round had ended.
C8_Witness ==
  /\ self.game = "Color Blast" /\ self.phase = "playing"
  /\ last.op = "check_answer" /\ ~self.game_active
  /\ self.players[1].completed

\* C9 as stated: in Color Blast the round is over from the moment the
\* remaining time is zero: game_active is false and the slot of the player
\* who played is completed, whatever the score.
C9_ZeroMeansOver ==
  (self.game = "Color Blast" /\ self.phase = "playing" /\ self.time_left = 0) =>
    /\ ~self.game_active
    /\ self.current_player >= 1
    /\ self.players[self.current_player].completed

\* C9, amended: a countdown tick that finds the remaining time above zero
\* decrements it by one and leaves the round active, also when it brings it
\* to zero; the tick that finds it at zero, one interval later, ends the
\* round regardless of the score: game_active becomes false and the current
\* player's slot is written with completed = true and correct * level * 10
\* points, also when the score is below the target.
C9_TickAtZeroEndsRound ==
  [][(self.game = "Color Blast" /\ last'.op = "countdown" /\ self.game_active) =>
       IF self.time_left > 0
       THEN /\ self'.game_active
            /\ self'.time_left = self.time_left - 1
            /\ self'.players = self.players
       ELSE LET cp == self.current_player + 1
            IN /\ ~self'.game_active
               /\ self'.players[cp].completed
               /\ self'.players[cp].score = self.score * self.current_level * 10]_vars

\* The tick at zero ended a round whose score was below the target.
C9_Witness ==
  /\ self.game = "Color Blast" /\ last.op = "countdown"
  /\ ~self.game_active /\ self.time_left = 0
  /\ self.score < self.target_score
  /\ self.players[1].completed

\* Number Rush: the click on the last number ends the round at once.
C10_LastNumber ==
  (self.game = "Number Rush" /\ last'.op = "number_clicked" /\ self.game_active
     /\ self'.current_number > self'.total_numbers) =>
    /\ ~self'.game_active
    /\ self'.players[self.current_player + 1].completed
    /\ self'.current_player = self.current_player + 1

\* Memory Match: the check that matches the last pair on the screen
\* schedules level_complete.
C10_LastPair ==
  (self.game = "Memory Match" /\ last'.op = "check_match" /\ self.phase = "playing"
     /\ Len(self'.matched) > Len(self.matched)
     /\ \A i \in DOMAIN self'.cards : self'.cards[i].matched) =>
    \E k \in 1..Len(pending') : pending'[k].fn = "level_complete"

\* C10 as stated: the progress input that meets the round's target ends the
\* round: the last number in Number Rush, the last pair in Memory Match, and
\* in Color Blast the correct answer that brings the score to the level's
\* target.
C10_TargetEndsRound ==
  [][/\ C10_LastNumber
     /\ C10_LastPair
     /\ (self.game = "Color Blast" /\ last'.op = "check_answer" /\ self.game_active
            /\ self'.score > self.score /\ self'.score >= self'.target_score) =>
          ~self'.game_active]_vars

\* C10, amended: in Number Rush the click on the last number ends the round
\* at once (inactive, the slot completed, current_player advanced); in Memory
\* Match the check that matches the last pair on the screen schedules
\* level_complete; in Color Blast a correct answer only adds one to the score
\* and schedules the next question: the round stays active and no slot is
\* written, also when the score reaches the target.
C10_ProgressMeetsTarget ==
  [][/\ C10_LastNumber
     /\ C10_LastPair
     /\ (self.game = "Color Blast" /\ last'.op = "check_answer" /\ self.game_active
            /\ self'.score > self.score) =>
          /\ self'.score = self.score + 1
          /\ self'.game_active
          /\ self'.players = self.players
          /\ \E k \in 1..Len(pending') : pending'[k].fn = "new_question"]_vars

\* A correct Color Blast answer brought the score to the target and the
\* round is still running.
C10_Witness ==
  /\ self.game = "Color Blast" /\ last.op = "check_answer"
  /\ self.game_active /\ self.score = self.target_score
  /\ ~self.players[self.current_player + 1].completed

\* C11: in Number Rush the numbers are clicked in ascending order (while a
\* round runs, exactly the numbers below current_number are clicked), a slot
\* becomes completed only by the click on the last number after all the
\* others, and a running round stops only by that click or by leaving the
\* game: no timer, wrong click or elapsed time ends it.
C11_CompleteOnlyByLastClick ==
  [][self.game = "Number Rush" =>
       /\ self.game_active =>
            \A i \in DOMAIN self.buttons : self.buttons[i] <=> (i < self.current_number)
       /\ \A i \in DOMAIN self.players :
            (i \in DOMAIN self'.players /\ ~self.players[i].completed
               /\ self'.players[i].completed) =>
              /\ last'.op = "number_clicked"
              /\ self.game_active
              /\ i = self.current_player + 1
              /\ self.current_number = self.total_numbers
              /\ \A j \in DOMAIN self'.buttons : self'.buttons[j]
       /\ (self.game_active /\ ~self'.game_active) =>
            \/ last'.op = "back_to_menu"
            \/ last'.op = "number_clicked" /\ self.current_number = self.total_numbers]_vars

\* The last number of a Number Rush board was clicked and the round ended.
C11_Witness ==
  /\ self.game = "Number Rush" /\ last.op = "number_clicked"
  /\ ~self.game_active /\ self.players[1].completed
  /\ self.current_number = self.total_numbers + 1
  /\ \A j \in DOMAIN self.buttons : self.buttons[j]

\* Memory Match: the pair waiting for check_match does not match.
MM_MismatchDue ==
  /\ self.game = "Memory Match" /\ Len(self.flipped) = 2
  /\ self.cards[self.flipped[1] + 1].symbol # self.cards[self.flipped[2] + 1].symbol

\* C12: a mismatching input never stops or starts the round, completes or
\* removes a player. A wrong Number Rush click changes no field; a wrong
\* Color Blast answer changes only the answer buttons' state; a Memory Match
\* check of a non-matching pair changes only the current player's streak
\* (to 0), the turn (to the next player) and the face-up pair (the flipped
\* list is emptied and flip_back is scheduled for the two cards), and a
\* flip_back changes only face-up flags of cards.
C12_MismatchFrame ==
  [][/\ (self.game = "Number Rush" /\ last'.op = "number_clicked" /\ self.game_active
            /\ self'.current_number = self.current_number) =>
          self' = self
     /\ (self.game = "Color Blast" /\ last'.op = "check_answer" /\ self.game_active
            /\ self'.score = self.score) =>
          [self' EXCEPT !.answer_state = self.answer_state] = self
     /\ (MM_MismatchDue /\ last'.op = "check_match" /\ self.phase = "playing") =>
          LET cp == self.current_player + 1
          IN /\ self' = [self EXCEPT !.players[cp].streak = 0,
                                     !.current_player =
                                        IF self.num_players > 1
                                        THEN (@ + 1) % self.num_players ELSE @,
                                     !.flipped = <<>>]
             /\ \E k \in 1..Len(pending') :
                  /\ pending'[k].fn = "flip_back"
                  /\ <<pending'[k].a, pending'[k].b>> = self.flipped
     /\ (self.game = "Memory Match" /\ last'.op = "flip_back") =>
          /\ Len(self'.cards) = Len(self.cards)
          /\ [self' EXCEPT !.cards = self.cards] = self
          /\ \A i \in DOMAIN self.cards :
               [self'.cards[i] EXCEPT !.flipped = self.cards[i].flipped] = self.cards[i]]_vars

\* In a two-player Memory Match game the first player's pair did not match:
\* the turn passed on and flip_back is pending.
C12_Witness ==
  /\ self.game = "Memory Match" /\ self.phase = "playing" /\ last.op = "check_match"
  /\ self.num_players = 2 /\ self.current_player = 1 /\ self.flipped = <<>>
  /\ \E k \in 1..Len(pending) : pending[k].fn = "flip_back"

\* Entries of list l that carry player p's name.
EntriesOf(l, p) == {k \in DOMAIN l : l[k].name = p.name}

\* C13: the step that finalizes a Number Rush or Color Blast session
\* (current_player reaches the roster size; the only step of these games that
\* calls add_score) emits exactly one leaderboard entry for each player with
\* completed = true, carrying the game's title, the player's name and score
\* and the session level, emits none for a player with completed = false,
\* and leaves the other games' lists alone (the game's list is below its cap
\* of ten here, so every emitted entry stays in it).
C13_OneEntryPerCompleted ==
  [][(TimerGame /\ (add_calls' # add_calls
                      \/ (self.current_player < self'.current_player
                           /\ self'.current_player = self'.num_players))) =>
       LET g == self.game
           done == {i \in DOMAIN self'.players : self'.players[i].completed}
       IN /\ add_calls' = add_calls + Cardinality(done)
          /\ Len(scores'[g]) = Len(scores[g]) + Cardinality(done)
          /\ \A h \in DOMAIN scores : h # g => scores'[h] = scores[h]
          /\ \A i \in DOMAIN self'.players :
               LET p == self'.players[i]
                   mine == EntriesOf(scores'[g], p)
               IN IF p.completed
                  THEN /\ Cardinality(mine \ EntriesOf(scores[g], p)) = 1
                       /\ \A k \in mine :
                            /\ scores'[g][k].game = g
                            /\ scores'[g][k].score = p.score
                            /\ scores'[g][k].level = self'.current_level
                  ELSE mine = {}]_vars

\* A two-player Color Blast session was finalized by its last tick: two
\* add_score calls, two entries.
C13_Witness ==
  /\ self.game = "Color Blast" /\ last.op = "countdown"
  /\ self.num_players = 2 /\ self.current_player = 2
  /\ add_calls = 2 /\ Len(scores["Color Blast"]) = 2

\* The world with the roster's completed flags set to c and the turn at cp.
WithRoster(c, cp) ==
  [World EXCEPT !.self.players = [i \in DOMAIN @ |-> [@[i] EXCEPT !.completed = c[i]]],
                !.self.current_player = cp]

\* What start_round must leave when called in world w: a round for the first
\* player from the turn on who is not completed, the slots untouched, or the
\* finalized session when there is none.
StartsFirstOpen(w, r) ==
  LET n == Len(w.self.players)
      open == {i \in (w.self.current_player + 1)..n : ~w.self.players[i].completed}
      done == {i \in 1..n : w.self.players[i].completed}
  IN IF open = {}
     THEN /\ ~r.self.game_active
          /\ r.self.current_player >= n
          /\ r.add_calls = w.add_calls + Cardinality(done)
     ELSE /\ r.self.game_active
          /\ r.self.current_player + 1 \in open
          /\ \A i \in open : r.self.current_player + 1 <= i
          /\ r.self.players = w.self.players
          /\ r.add_calls = w.add_calls

\* C14: start_round of Number Rush and Color Blast never begins a round for
\* a completed player. Whenever a step leaves a round running, the current
\* player's slot is not completed; and wherever Next Player is offered,
\* start_round called with any pattern of completed flags and any turn skips
\* forward to the first player not completed, or finalizes the session when
\* the turn reaches the roster size.
C14_SkipsCompleted ==
  TimerGame =>
    /\ (self.phase = "playing" /\ self.game_active) =>
         /\ self.current_player < self.num_players
         /\ ~self.players[self.current_player + 1].completed
    /\ (self.phase = "playing" /\ self.start_btn = "shown") =>
         \A c \in [DOMAIN self.players -> BOOLEAN], cp \in 0..Len(self.players) :
           LET w == WithRoster(c, cp)
               env == Env(0, "2026-01-01 10:00", "ok", 0, <<>>)
           IN StartsFirstOpen(w, IF self.game = "Number Rush"
                                 THEN NR_start_round(w, env)
                                 ELSE CB_start_round(w, env))

\* Next Player began the second player's round past the completed first.
C14_Witness ==
  /\ TimerGame /\ last.op = "start_round" /\ self.game_active
  /\ self.current_player = 1
  /\ self.players[1].completed /\ ~self.players[2].completed

\* A round has completed, players remain and the game screen is still up.
AwaitingNextPlayer ==
  /\ TimerGame /\ self.phase = "playing" /\ self.players # <<>>
  /\ ~self.game_active /\ self.current_player < self.num_players

\* C15: in Number Rush and Color Blast, between a round's completion with
\* players remaining and the Next Player command no timer is pending,
\* game_active stays false, and no tick or input changes a field or the
\* leaderboard: only start_round begins the next round (and only
\* back_to_menu otherwise changes anything, by leaving).
C15_NoAutoAdvance ==
  [][AwaitingNextPlayer =>
       /\ TimerTicks = {}
       /\ self.start_btn = "shown"
       /\ self.players[self.current_player].completed
       /\ self'.game_active => last'.op = "start_round"
       /\ last'.op \notin {"start_round", "back_to_menu"} =>
            /\ self' = self
            /\ scores' = scores /\ file' = file /\ add_calls' = add_calls]_vars

\* While the second player was awaited, a new_question scheduled during the
\* first round fired.
C15_Witness ==
  /\ AwaitingNextPlayer /\ self.game = "Color Blast"
  /\ self.current_player = 1 /\ last.op = "new_question"

\* C16: in Memory Match the level advance is offered only below level 5, and
\* accepting it sets current_level to exactly current_level + 1 (with that
\* level's grid size and pair count), keeps the roster, resets every
\* player's matches and streak, the turn, the move count and the board (all
\* cards of the new level face down and unmatched), and leaves every
\* player's score unchanged.
C16_LevelAdvance ==
  [][self.game = "Memory Match" =>
       /\ self.modal = "ask" => self.current_level < MaxLevel
       /\ (self.modal = "ask" /\ last'.op = "level_complete_answer"
             /\ add_calls' = add_calls) =>
            /\ self'.current_level = self.current_level + 1
            /\ self'.grid_size = MM_LEVELS[self'.current_level].grid
            /\ self'.total_pairs = MM_LEVELS[self'.current_level].pairs
            /\ self'.num_players = self.num_players
            /\ Len(self'.players) = Len(self.players)
            /\ \A i \in DOMAIN self.players :
                 self'.players[i] = [self.players[i] EXCEPT !.matches = 0, !.streak = 0]
            /\ self'.current_player = 0 /\ self'.moves = 0
            /\ self'.flipped = <<>> /\ self'.matched = <<>>
            /\ self.phase = "playing" =>
                 Len(self'.cards) = MM_NumCards(self'.current_level)
            /\ \A i \in DOMAIN self'.cards :
                 ~self'.cards[i].flipped /\ ~self'.cards[i].matched]_vars

\* The advance from level 4 was accepted: level 5 starts with a fresh board
\* and the points of level 4.
C16_Witness ==
  /\ self.game = "Memory Match" /\ self.phase = "playing"
  /\ last.op = "level_complete_answer" /\ add_calls = 0
  /\ self.current_level = MaxLevel /\ self.moves = 0
  /\ Len(self.cards) = MM_NumCards(MaxLevel)
  /\ self.players[1].score > 0

LevelCompleteDue == \E k \in DOMAIN pending : pending[k].fn = "level_complete"

\* The level_complete step adds the level's bonus once to each player whose
\* matches count is positive and changes no other score.
C17_BonusStep ==
  last'.op = "level_complete" =>
    /\ Len(self'.players) = Len(self.players)
    /\ \A i \in DOMAIN self.players :
         self'.players[i] =
           [self.players[i] EXCEPT !.score =
              @ + (IF self.players[i].matches > 0
                   THEN MM_LEVELS[self.current_level].bonus ELSE 0)]

\* C17: in Memory Match, when a level's full target is reached (every card
\* matched, level_complete scheduled once) the level's bonus is added exactly
\* once to every player with at least one match in that level and to no
\* other player: while the bonus is due the board is still complete and the
\* players who made the matches still carry them, and the level_complete
\* step pays exactly those players.
C17_BonusOncePerTarget ==
  [][self.game = "Memory Match" =>
       /\ LevelCompleteDue =>
            /\ Cardinality({k \in DOMAIN pending : pending[k].fn = "level_complete"}) = 1
            /\ Len(self.cards) > 0 /\ Len(self.matched) = Len(self.cards)
            /\ \E i \in DOMAIN self.players : self.players[i].matches > 0
       /\ C17_BonusStep]_vars

\* C18: in Memory Match each successful match adds
\* 10 * level * (1 + floor(streak / 3)) to the current player's score, streak
\* being that player's streak after the increment (at level 2 the match that
\* brings the streak to 4 awards 40), and a mismatch resets that player's
\* streak to 0 and awards nothing.
C18_MatchScore ==
  [][(last'.op = "check_match" /\ Len(self.flipped) = 2 /\ self.phase = "playing") =>
       LET cp == self.current_player + 1
           p == self.players[cp]
           q == self'.players[cp]
           after == p.streak + 1
       IN /\ \A i \in DOMAIN self.players : i # cp => self'.players[i] = self.players[i]
          /\ IF self.cards[self.flipped[1] + 1].symbol = self.cards[self.flipped[2] + 1].symbol
             THEN /\ q.streak = after /\ q.matches = p.matches + 1
                  /\ q.score = p.score + 10 * self.current_level * (1 + (after \div 3))
                  /\ (self.current_level = 2 /\ after = 4) => q.score = p.score + 40
             ELSE q = [p EXCEPT !.streak = 0]]_vars

\* At level 2 a fourth match in a row has been scored on top of 20, 20 and 40.
C18_Witness ==
  /\ self.game = "Memory Match" /\ last.op = "check_match"
  /\ self.current_level = 2 /\ self.players[1].streak = 4
  /\ self.players[1].score = 120

\* C19: the Number Rush score written at round completion is
\* floor(10000 / elapsed seconds) * level for every level 1..5 and every
\* positive elapsed time (times are kept in milliseconds here): the score is
\* a multiple of the level, and its quotient f by the level is the largest
\* integer with f * elapsed <= 10000 s. Level 3 in 5 s scores 6000.
C19_SpeedScore ==
  [][(self.game = "Number Rush" /\ last'.op = "number_clicked"
        /\ self.current_player < Len(self.players)
        /\ ~self.players[self.current_player + 1].completed
        /\ self'.players[self.current_player + 1].completed) =>
       LET q == self'.players[self.current_player + 1]
           level == self.current_level
           f == q.score \div level
       IN /\ level \in 1..MaxLevel /\ q.time > 0
          /\ q.score = f * level
          /\ f * q.time <= 10000 * 1000 /\ (f + 1) * q.time > 10000 * 1000
          /\ (level = 3 /\ q.time = 5000) => q.score = 6000]_vars

\* Player 1 of two has finished level 3 in 5 s and holds 6000 points.
C19_Witness ==
  /\ self.game = "Number Rush" /\ last.op = "number_clicked"
  /\ self.current_level = 3 /\ self.num_players = 2 /\ self.current_player = 1
  /\ self.players[1].completed
  /\ self.players[1].time = 5000 /\ self.players[1].score = 6000

\* C20: the Color Blast score written at the end of a round is
\* correctCount * level * 10, correctCount being the correct answers accepted
\* during that player's round only: the count is 0 when a round starts, grows
\* by one with each correct answer accepted while the round is active,
\* changes at no other step, and the step that ends the round writes
\* count * level * 10 into the current player's slot.
C20_RoundScore ==
  [][self.game = "Color Blast" =>
       /\ (~self.game_active /\ self'.game_active) =>
            last'.op \in {"start_game", "start_round"} /\ self'.score = 0
       /\ (self.game_active /\ self'.game_active) =>
            \/ self'.score = self.score
            \/ /\ last'.op = "check_answer" /\ self'.score = self.score + 1
               /\ Len(pending') = Len(pending) + 1
               /\ pending'[Len(pending')].delay = 200
       /\ (~self.game_active /\ ~self'.game_active) => self'.score = self.score
       /\ (self.game_active /\ ~self'.game_active /\ last'.op = "countdown") =>
            /\ self'.score = self.score
            /\ self'.players[self.current_player + 1].score =
                 self.score * self.current_level * 10]_vars

\* Both rounds of a two-player session are over: Player 1 answered twice
\* correctly, Player 2 never.
C20_Witness ==
  /\ self.game = "Color Blast" /\ last.op = "countdown"
  /\ self.num_players = 2 /\ self.current_player = 2
  /\ self.current_level = 4
  /\ self.players[1].score = 80 /\ self.players[2].score = 0
  /\ self.players[2].completed

\* No scores.json to load: it is missing, cannot be opened or is not JSON.
NothingToLoad(f) == f.kind \in {"missing", "unreadable", "corrupt"}

\* C21: constructing the leaderboard store never raises, whatever the file
\* is (missing, unreadable, not JSON, an object lacking game titles, no
\* object at all); when the file is missing, unreadable or not JSON the
\* store holds an empty list for each of the three games, and the next
\* add_score, get_top_scores or get_player_rank on one of them works.
C21_ConstructNeverRaises ==
  [][/\ last.op = "construct" =>
          /\ ~last.raised
          /\ NothingToLoad(file) =>
               /\ DOMAIN scores = GameTitles
               /\ \A g \in GameTitles : scores[g] = <<>>
     /\ (last.op = "construct" /\ NothingToLoad(file)
           /\ last'.op # "construct" /\ last'.game \in GameTitles) =>
          /\ ~last'.raised
          /\ last'.op = "add_score" =>
               last'.ret = TRUE /\ scores'[last'.game] = <<last'.rec>>
          /\ last'.op = "get_top_scores" => last'.ret = <<>>
          /\ last'.op = "get_player_rank" => last'.ret = -1]_vars

\* The store was constructed over what a broken-off write left of the file,
\* and has taken a score since.
C21_Witness ==
  /\ last.op = "add_score" /\ last.ret /\ add_calls = 2
  /\ last.write = "denied" /\ file.kind = "corrupt"
  /\ scores[last.game] = <<last.rec>>

\* Entry a ranks at or above entry b: higher score, or equal score and at
\* least the level.
AtOrAbove(a, b) == a.score > b.score \/ (a.score = b.score /\ a.level >= b.level)

\* C22: when scores.json cannot be written, add_score on a game of the store
\* does not raise and returns True, and the list in memory is updated all
\* the same (the record appended, the list sorted and cut to ten, the other
\* lists untouched); get_top_scores and get_player_rank called next answer
\* from the updated list.
C22_WriteFailureKeepsMemory ==
  [][/\ (last'.op = "add_score" /\ last'.write # "ok"
           /\ last'.game \in DOMAIN scores) =>
          LET g == last'.game
              old == scores[g]
              new == scores'[g]
              rec == last'.rec
          IN /\ ~last'.raised /\ last'.ret = TRUE
             /\ file' = file \/ file'.kind = "corrupt"
             /\ Len(new) = Min(Len(old) + 1, 10)
             /\ \/ \E i \in DOMAIN new : new[i] = rec
                \/ Len(old) >= 10 /\ \A i \in DOMAIN new : AtOrAbove(new[i], rec)
             /\ \A i \in DOMAIN new : \A j \in (i + 1)..Len(new) : AtOrAbove(new[i], new[j])
             /\ \A i \in DOMAIN new : new[i] = rec \/ \E j \in DOMAIN old : old[j] = new[i]
             /\ \A h \in DOMAIN scores \ {g} : scores'[h] = scores[h]
     /\ (last.op = "add_score" /\ last.write # "ok" /\ last.ret
           /\ last'.op \in {"get_top_scores", "get_player_rank"}
           /\ last'.game = last.game) =>
          LET l == scores[last.game]
          IN /\ ~last'.raised
             /\ last'.op = "get_top_scores" =>
                  /\ Len(last'.ret) = Min(Len(l), last'.arg)
                  /\ \A i \in DOMAIN last'.ret : last'.ret[i] = l[i]
             /\ (last'.op = "get_player_rank" /\ last'.arg = last.rec.name
                   /\ \E i \in DOMAIN l : l[i] = last.rec) =>
                  /\ last'.ret \in DOMAIN l
                  /\ l[last'.ret].name = last.rec.name]_vars

\* No file could ever be written, yet the player recorded is ranked first.
C22_Witness ==
  /\ last.op = "get_player_rank" /\ last.ret = 1 /\ last.arg = "Ada"
  /\ file.kind = "missing" /\ add_calls = 2
  /\ Len(scores[last.game]) = 2

\* The list l is in (score, then level) descending order and has at most
\* ten entries.
SortedAndCut(l) ==
  /\ Len(l) <= 10
  /\ \A i \in DOMAIN l : \A j \in (i + 1)..Len(l) : AtOrAbove(l[i], l[j])

\* The write-through of add_score: with writable storage the file holds
\* the whole store of the moment add_score returns, and a store constructed
\* from it right away is that same store.
C23_WriteThrough ==
  /\ (last'.op = "add_score" /\ last'.write = "ok" /\ last'.ret = TRUE) =>
       /\ file'.kind = "json" /\ file'.doc = scores'
       /\ SortedAndCut(scores'[last'.game])
  /\ (last.op = "add_score" /\ last.write = "ok" /\ last.ret
        /\ last'.op = "construct") => scores' = scores

\* C23: with writable storage, after every add_score on a game of the store
\* the persisted document equals the full in-memory store, all games, each
\* list sorted and cut to ten: the file is rewritten in full on each
\* recorded score and a later read sees no partial write.
C23_FileEqualsSortedStore ==
  [][/\ C23_WriteThrough
     /\ (last'.op = "add_score" /\ last'.write = "ok" /\ last'.ret = TRUE) =>
          \A g \in DOMAIN file'.doc : SortedAndCut(file'.doc[g])]_vars

\* A store is constructed right after an add_score that returned True.
C24_LoadAfterAdd == last.op = "add_score" /\ last.ret = TRUE /\ last'.op = "construct"

\* The original wording of C24: after add_score on a game of the store, a
\* freshly constructed store loaded from the same file holds the record in
\* that game's list, and ranks its name first when it is the first entry.
C24_RoundTrip ==
  [][C24_LoadAfterAdd =>
       /\ last.game \in DOMAIN scores'
       /\ \E i \in DOMAIN scores'[last.game] : scores'[last.game][i] = last.rec
       /\ scores'[last.game][1] = last.rec =>
            PlayerRank(scores', last.game, last.rec.name) = 1]_vars

\* C24: with writable storage, after add_score returned True a freshly
\* constructed store loaded from the same file equals the store in memory;
\* its list of the game holds the record unless ten entries rank at or above
\* it (the cut to ten dropped it), and get_player_rank gives 1 for the
\* record's name when the record is the first entry.
C24_RoundTripWhenWritten ==
  [][(C24_LoadAfterAdd /\ last.write = "ok") =>
       LET l == scores'[last.game]
       IN /\ scores' = scores
          /\ \/ \E i \in DOMAIN l : l[i] = last.rec
             \/ Len(l) = 10 /\ \A i \in DOMAIN l : AtOrAbove(l[i], last.rec)
          /\ (l # <<>> /\ l[1] = last.rec) =>
               PlayerRank(scores', last.game, last.rec.name) = 1]_vars

\* A store loaded from the file written by the add of the list's only
\* record, whose player it ranks first.
C24_Witness ==
  /\ last.op = "construct" /\ file.kind = "json" /\ add_calls = 1
  /\ "Color Blast" \in DOMAIN scores
  /\ Len(scores["Color Blast"]) = 1
  /\ scores["Color Blast"][1].name = "Ada"
  /\ PlayerRank(scores, "Color Blast", "Ada") = 1

\* C25: get_top_scores(game, limit) returns at most limit entries of the
\* game, highest (score, then level) first, and the empty sequence without
\* error when the game is unknown or has no entries, in every reachable
\* state of the store, directly after loading a persisted file included.
C25_TopScoresHighestFirst ==
  last.op = "get_top_scores" =>
    /\ ~last.raised
    /\ Len(last.ret) <= last.arg
    /\ \A i \in DOMAIN last.ret : \A j \in (i + 1)..Len(last.ret) :
         AtOrAbove(last.ret[i], last.ret[j])
    /\ \A i \in DOMAIN last.ret : last.ret[i].game = last.game
    /\ last.game \notin GameTitles => last.ret = <<>>

\* C26: get_top_scores is a pure read. It changes neither the store in
\* memory nor the file, and two calls with the same arguments and no other
\* operation in between end the same way, with identical ordered results.
C26_PureRead ==
  [][last'.op = "get_top_scores" =>
       /\ scores' = scores /\ file' = file
       /\ (last.op = "get_top_scores" /\ last.game = last'.game
             /\ last.arg = last'.arg) =>
            last'.raised = last.raised /\ last'.ret = last.ret
       /\ (last.op = "add_score" /\ last.ret /\ last'.game = last.game) =>
            /\ ~last'.raised
            /\ Len(last'.ret) = Min(last'.arg, Len(scores[last.game]))
            /\ \A i \in DOMAIN last'.ret : last'.ret[i] = scores[last.game][i]]_vars

\* The ten entries of a full list have been read after an add_score.
C26_Witness ==
  /\ last.op = "get_top_scores" /\ ~last.raised
  /\ last.arg = 10 /\ Len(last.ret) = 10
  /\ add_calls > 0 /\ Len(scores[last.game]) = 10

\* C27: get_player_rank(game, name) returns the 1-based position of the
\* first entry with that name in the game's current list, and -1 when no
\* entry has that name or the game is unknown (so also for a name whose
\* entry the cut to ten has dropped).
C27_RankOrSentinel ==
  last.op = "get_player_rank" =>
    LET l == IF last.game \in DOMAIN scores THEN scores[last.game] ELSE <<>>
        hits == {i \in DOMAIN l : l[i].name = last.arg}
    IN /\ ~last.raised
       /\ hits = {} => last.ret = -1
       /\ hits # {} => last.ret \in hits /\ \A i \in hits : last.ret <= i

\* C28: in every reachable state of every game each player's score is an
\* integer >= 0 and current_level is in 1..5, so every level-table lookup
\* is defined; once start_game has set the level chosen on the setup screen
\* it changes only in Memory Match and only by +1.
C28_ScoreAndLevelRange ==
  [][self.game \in GameTitles =>
       /\ self.current_level \in 1..5
       /\ self.current_level \in
            (DOMAIN NR_LEVELS \cap DOMAIN CB_LEVELS) \cap DOMAIN MM_LEVELS
       /\ \A i \in DOMAIN self.players : self.players[i].score \in Nat
       /\ self'.current_level # self.current_level =>
            \/ self.phase = "setup" /\ last'.op = "start_game"
            \/ /\ self.game = "Memory Match" /\ last'.op = "level_complete_answer"
               /\ self'.current_level = self.current_level + 1]_vars

\* A Memory Match session that has advanced to the last level with points
\* on the board and has been left since.
C28_Witness ==
  /\ self.game = "Memory Match" /\ self.phase = "left"
  /\ self.current_level = 5 /\ add_calls = 0 /\ restarts = 0
  /\ self.moves = 0 /\ self.players[1].score > 300

\* A correct Color Blast answer is waiting for its 200 ms new_question.
CB_AnsweredCorrectly ==
  \E k \in DOMAIN pending : pending[k].fn = "new_question" /\ pending[k].delay = 200

\* C29: in Color Blast each displayed question adds at most 1 to the correct
\* count: between a correct answer and its delayed new_question (200 ms
\* later) no further answer input, a repeated click on the correct slot
\* included, increases the score.
C29_OnePointPerQuestion ==
  [][(self.game = "Color Blast" /\ CB_AnsweredCorrectly) =>
       self'.score <= self.score \/ last'.op # "check_answer"]_vars

\* C30: in Memory Match, under any interleaving of flips, delayed callbacks
\* and Restart, the board stays consistent while the game screen is up: the
\* flipped list holds at most 2 entries, distinct, each a face-up and
\* unmatched card; no card is matched with itself; the matched list holds
\* no index twice and is made of pairs of distinct cards with equal symbols
\* (its length even and at most the number of cards).
C30_BoardConsistent ==
  (self.game = "Memory Match" /\ self.phase = "playing") =>
    LET f == self.flipped
        m == self.matched
        c == self.cards
    IN /\ Len(f) <= 2
       /\ \A i \in DOMAIN f : \A j \in DOMAIN f : i # j => f[i] # f[j]
       /\ \A i \in DOMAIN f :
            f[i] < Len(c) /\ c[f[i] + 1].flipped /\ ~c[f[i] + 1].matched
       /\ \A i \in DOMAIN m : \A j \in DOMAIN m : i # j => m[i] # m[j]
       /\ Len(m) % 2 = 0 /\ Len(m) <= Len(c)
       /\ \A k \in 1..(Len(m) \div 2) :
            /\ m[2 * k - 1] # m[2 * k]
            /\ c[m[2 * k - 1] + 1].symbol = c[m[2 * k] + 1].symbol

\* C31: at every level the Memory Match board holds exactly 2 * pairs cards,
\* pairs being the level's configured pair count, every symbol lies on
\* exactly two cards, and the pairs found so far never exceed that count.
C31_BoardHoldsConfiguredPairs ==
  (self.game = "Memory Match" /\ self.phase = "playing") =>
    LET c == self.cards
    IN /\ self.total_pairs = MM_LEVELS[self.current_level].pairs
       /\ Len(c) = 2 * self.total_pairs
       /\ \A i \in DOMAIN c :
            Cardinality({j \in DOMAIN c : c[j].symbol = c[i].symbol}) = 2
       /\ Len(self.matched) <= 2 * self.total_pairs

\* C32: in a running Memory Match session no step lowers a player's score;
\* Restart (start_level) in particular leaves every score as it was.
C32_ScoresNeverDrop ==
  [][(self.game = "Memory Match" /\ self.phase # "setup") =>
       /\ Len(self'.players) = Len(self.players)
       /\ \A i \in DOMAIN self.players :
            self'.players[i].score >= self.players[i].score
       /\ last'.op = "start_level" =>
            \A i \in DOMAIN self.players :
              self'.players[i].score = self.players[i].score]_vars

\* Restart was pressed by a player who had already earned points.
C32_Witness ==
  /\ self.game = "Memory Match"
  /\ last.op = "start_level"
  /\ \E i \in DOMAIN self.players : self.players[i].score > 0

\* C33: Memory Match turn rotation. A check of a matching pair leaves the
\* turn where it is; a check of a non-matching pair passes it to
\* (current_player + 1) mod num_players, which is 0 for a single player;
\* current_player is always in 0..num_players - 1, and every start_level
\* (on Start, on Restart, on moving to the next level) sets it to 0.
C33_TurnRotation ==
  [][self.game = "Memory Match" =>
       /\ self'.current_player \in 0..(self'.num_players - 1)
       /\ (self.phase = "playing" /\ last'.op = "check_match" /\ Len(self.flipped) = 2) =>
            IF self.cards[self.flipped[1] + 1].symbol = self.cards[self.flipped[2] + 1].symbol
            THEN self'.current_player = self.current_player
            ELSE self'.current_player =
                   IF self.num_players > 1
                   THEN (self.current_player + 1) % self.num_players ELSE 0
       /\ (\/ last'.op \in {"start_game", "start_level"}
           \/ last'.op = "level_complete_answer" /\ self'.current_level # self.current_level) =>
            self'.current_player = 0]_vars

\* Two players, two checks of non-matching pairs: the turn went round and is
\* back with the first player.
C33_Witness ==
  /\ self.game = "Memory Match" /\ self.phase = "playing" /\ last.op = "check_match"
  /\ self.num_players = 2 /\ self.current_player = 0 /\ self.moves = 2
  /\ \A i \in DOMAIN self.players : self.players[i].matches = 0

\* The step is a Memory Match finalization: level_complete's message box was
\* answered and the level did not advance.
MM_Finalizes ==
  /\ self.game = "Memory Match" /\ last'.op = "level_complete_answer"
  /\ self'.current_level = self.current_level

\* C34: Memory Match finalization makes exactly one add_score call for every
\* roster player, scorers and players without a match alike, each with the
\* player's score and the level current at that moment; and the leaderboard
\* is only written by a finalization, which follows a level_complete at the
\* last level or a declined advance.
C34_OneEntryPerRosterPlayer ==
  [][self.game = "Memory Match" =>
       /\ (add_calls' # add_calls \/ scores' # scores \/ file' # file) =>
            /\ MM_Finalizes
            /\ \/ self.modal = "final" /\ self.current_level = MaxLevel
               \/ self.modal = "ask" /\ self.current_level < MaxLevel
       /\ MM_Finalizes =>
            LET old == scores["Memory Match"]
                new == scores'["Memory Match"]
            IN /\ add_calls' = add_calls + Len(self.players)
               /\ Len(old) + Len(self.players) <= TopN =>
                    /\ Len(new) = Len(old) + Len(self.players)
                    /\ \A i \in DOMAIN self.players :
                         LET p == self.players[i]
                             mine(l) == {k \in DOMAIN l :
                                           /\ l[k].name = p.name
                                           /\ l[k].score = p.score
                                           /\ l[k].level = self.current_level}
                         IN /\ Cardinality(EntriesOf(new, p))
                                 = Cardinality(EntriesOf(old, p)) + 1
                            /\ Cardinality(mine(new)) = Cardinality(mine(old)) + 1]_vars

\* A two-player game was finalized and the player who found no pair is on
\* the leaderboard with 0 points.
C34_Witness ==
  /\ self.game = "Memory Match" /\ last.op = "level_complete_answer"
  /\ self.num_players = 2 /\ add_calls = 2
  /\ \E i \in DOMAIN self.players :
       /\ self.players[i].matches = 0 /\ self.players[i].score = 0
       /\ \E k \in DOMAIN scores["Memory Match"] :
            /\ scores["Memory Match"][k].name = self.players[i].name
            /\ scores["Memory Match"][k].score = 0
            /\ scores["Memory Match"][k].level = self.current_level

\* C35: leaving a Number Rush or Color Blast session with back_to_menu, at
\* any point and whoever has completed a round, makes no add_score call and
\* leaves the leaderboard store and file as they were; game_active becomes
\* false and the timer callback the game holds is cancelled.
C35_AbandonSavesNothing ==
  [][(TimerGame /\ last'.op = "back_to_menu") =>
       /\ add_calls' = add_calls /\ scores' = scores /\ file' = file
       /\ ~self'.game_active
       /\ self'.timer_id = 0
       /\ \A k \in DOMAIN pending' :
            /\ pending'[k].fn \notin {"countdown", "update_timer"}
            /\ self.timer_id # 0 => pending'[k].id # self.timer_id
       /\ self'.players = self.players]_vars

\* A session was abandoned after one of its players had completed a round.
C35_Witness ==
  /\ TimerGame /\ last.op = "back_to_menu" /\ self.phase = "left"
  /\ \E i \in DOMAIN self.players : self.players[i].completed
  /\ add_calls = 0

\* The entries of list l whose (score, level) key is that of record e, in
\* the order l has them.
WithKeyOf(l, e) ==
  LET same(x) == x.score = e.score /\ x.level = e.level
  IN SelectSeq(l, same)

\* Sequence p is an initial part of sequence q.
IsPrefix(p, q) == Len(p) <= Len(q) /\ SubSeq(q, 1, Len(p)) = p

\* C36: leaderboard ties go by insertion order. After an add_score the
\* entries of any one (score, level) key are those the list had, in the
\* order it had them, with the new record behind them (up to the cut to
\* ten); on a list of ten entries whose tenth has a key at or above the new
\* record's, the list is left as it was: the newcomer is the one dropped.
C36_TiesByInsertionOrder ==
  [][(last'.op = "add_score" /\ last'.game \in DOMAIN scores) =>
       LET old == scores[last'.game]
           new == scores'[last'.game]
           rec == last'.rec
       IN /\ \A e \in {old[i] : i \in DOMAIN old} \cup {rec} :
               IsPrefix(WithKeyOf(new, e), WithKeyOf(Append(old, rec), e))
          /\ (Len(old) = TopN /\ AtOrAbove(old[TopN], rec)) => new = old]_vars

\* C37: add_score returns True exactly when the game is a key of the store,
\* whether or not the new record survives the cut to ten and whether or not
\* the file could be written; when it returns False neither the store in
\* memory nor the file has changed.
C37_ReturnsTrueIffKnownGame ==
  [][last'.op = "add_score" =>
       /\ ~last'.raised
       /\ last'.ret \in BOOLEAN
       /\ last'.ret <=> last'.game \in DOMAIN scores
       /\ ~last'.ret => scores' = scores /\ file' = file]_vars

\* add_score returned True although the file could not be written and the
\* record did not make it into the ten.
C37_Witness ==
  /\ last.op = "add_score" /\ last.ret = TRUE /\ last.write = "denied"
  /\ Len(scores[last.game]) = TopN
  /\ \A i \in DOMAIN scores[last.game] : scores[last.game][i] # last.rec

\* C38: in Number Rush current_number is always in 1..total_numbers + 1 and
\* at most total_numbers while the round is active; the buttons marked
\* clicked are exactly the numbers below current_number; and a round that
\* has just been started has current_number = 1.
C38_CurrentNumber ==
  self.game = "Number Rush" =>
    /\ 1 <= self.current_number
    /\ self.current_number <= self.total_numbers + 1
    /\ self.game_active => self.current_number <= self.total_numbers
    /\ {i \in DOMAIN self.buttons : self.buttons[i]} = 1..(self.current_number - 1)
    /\ (last.op \in {"start_game", "start_round"} /\ self.game_active) =>
         self.current_number = 1

\* The second player's round has just started, after the first player's
\* round had counted up to its end.
C38_Witness ==
  /\ self.game = "Number Rush" /\ last.op = "start_round" /\ self.game_active
  /\ self.current_player = 1 /\ self.players[1].completed
  /\ self.current_number = 1
  /\ \A i \in DOMAIN self.buttons : ~self.buttons[i]

\* C39: every Color Blast round that has started ends. While the countdown
\* callback keeps being fired and nobody leaves, whatever answers are given,
\* the round of player i reaches round_over with the time used up, and a
\* session in which Next Player is pressed whenever it is offered reaches
\* end_game with every player of the roster completed and recorded.
C39_RoundsTerminate ==
  /\ \A i \in 0..(MaxPlayers - 1) :
       (self.game_active /\ self.current_player = i)
         ~> (/\ ~self.game_active /\ self.time_left = 0
             /\ Len(self.players) > i /\ self.players[i + 1].completed)
  /\ (self.phase = "playing")
       ~> (/\ ~self.game_active
           /\ self.current_player = self.num_players
           /\ \A i \in DOMAIN self.players : self.players[i].completed
           /\ add_calls = self.num_players)

\* A session of two players has reached end_game: both are completed and
\* both were recorded.
C39_Witness ==
  /\ self.game = "Color Blast" /\ self.phase = "playing" /\ ~self.game_active
  /\ self.num_players = 2 /\ self.current_player = 2
  /\ \A i \in DOMAIN self.players : self.players[i].completed
  /\ add_calls = 2 /\ Len(scores["Color Blast"]) = 2

====
